---------------------------- MODULE Spec2Model ----------------------------
(***************************************************************************)
(* bigsets-rs: a replicated add-wins set.  Each node has a Server          *)
(* (server.rs) holding the in-memory version vector, a SqliteStorage       *)
(* (storage/sqlite.rs) holding the sets/elements/dots/version_vector       *)
(* tables, a receiver-side PendingBuffer (buffers.rs) and a replication    *)
(* endpoint (replication/server.rs) that applies operations of peers.      *)
(*                                                                         *)
(* Server::sadd / Server::srem call the storage's local add_elements /     *)
(* remove_elements, Server::apply_remote_operation calls replicate_add /   *)
(* replicate_remove with the operation's removed_dots.  The result of      *)
(* apply_remote_operation is one of                                        *)
(*   "applied"  Ok: the operation was handed to storage and committed,     *)
(*   "gap"      the causality check failed (Applied = false; the caller    *)
(*              buffers the operation),                                    *)
(*   "error"    the storage transaction failed.                            *)
(* One set name is modelled; db.sets says whether its row exists.          *)
(***************************************************************************)
EXTENDS Integers, Sequences, FiniteSets, TLC

\* Cluster::new(3): the replicas of the cluster, ActorId::from_node_id(id).
NumNodes == 3
\* Bound on the number of local writes (sadd / srem) of a behaviour.
MaxOps == 3
\* PendingBuffer::max_size of every node.
PendingCapacity == 2

Actors == 1..NumNodes
Elements == {"x", "y"}
\* The member lists a client passes to SADD / SREM.
MemberLists == {<<"x">>, <<"y">>}
\* The replicas that clients write to and that are configured as each
\* other's peers in the two-replica specifications.
Linked == {1, 2}

VARIABLES
  vv,        \* vv[n]: Server.version_vector of node n (absent actor = 0)
  db,        \* db[n]: the tables of node n's SqliteStorage
  out,       \* out[n]: the operations node n produced, in commit order
  pending,   \* pending[n]: PendingBuffer.ops of node n
  applied,   \* applied[n]: the remote operations that returned "applied" at n, as
             \* [dot, via]: via says whether the operation came straight off the
             \* connection ("direct") or out of the pending buffer ("buffer")
  ref,       \* the reference cluster of tests/proptest.rs (Cluster<ModelNode>)
  repl       \* ReplicationManager state, the wire between the nodes, one peer
             \* connection (conn), the Server calls in flight (calls) and the
             \* connection handlers of one node (handlers)

vars == <<vv, db, out, pending, applied, ref, repl>>

---------------------------------------------------------------------------
(* types.rs: Dot and VersionVector                                         *)

Dot(a, c) == [actor_id |-> a, counter |-> c]

VVnew == [a \in Actors |-> 0]

VVget(v, a) == v[a]

Max(a, b) == IF a >= b THEN a ELSE b

\* VersionVector::increment: the vector after the increment; the dot minted
\* is Dot(a, increment(v, a)[a]).
increment(v, a) == [v EXCEPT ![a] = @ + 1]

\* An update that stores the counter it is given, whatever the vector holds.
update_overwrite(v, a, c) == [v EXCEPT ![a] = c]

update(v, a, c) == [v EXCEPT ![a] = Max(@, c)]

RECURSIVE mergeOver(_, _, _)
mergeOver(v, other, as) ==
  IF as = {} THEN v
  ELSE LET a == CHOOSE b \in as : TRUE
       IN mergeOver(update(v, a, other[a]), other, as \ {a})

merge(v, other) == mergeOver(v, other, {a \in Actors : other[a] > 0})

descends(v, other) == \A a \in Actors : VVget(v, a) >= other[a]

---------------------------------------------------------------------------
(* storage/sqlite.rs: the tables and the four mutations.  A mutation       *)
(* returns [ok, db, deleted]; ok = FALSE is a failed (rolled back)         *)
(* transaction, whose db is the one before the call.                       *)

DbNew == [sets |-> FALSE, elements |-> {}, dots |-> {}, version_vector |-> VVnew]

DotRow(e, d) == [element |-> e, actor_id |-> d.actor_id, counter |-> d.counter]

RowDot(r) == Dot(r.actor_id, r.counter)

DotsOn(d, e) == {r \in d.dots : r.element = e}

\* A transaction that commits without the version_vector upsert.
without_upsert_vv(d, dot) == d

\* INSERT INTO version_vector ... ON CONFLICT DO UPDATE SET counter = MAX(..)
upsert_vv(d, dot) ==
  [d EXCEPT !.version_vector[dot.actor_id] = Max(@, dot.counter)]

load_vv(d) == d.version_vector

get_elements(d) == IF d.sets THEN d.elements ELSE {}

is_member(d, e) == e \in get_elements(d)

\* A local add that inserts its dot next to the dots already on the element.
RECURSIVE add_elements_keeps_dots(_, _, _, _)
add_elements_keeps_dots(d, elements, dot, deleted) ==
  IF elements = <<>> THEN [db |-> d, deleted |-> deleted]
  ELSE add_elements_keeps_dots(
         [d EXCEPT !.elements = @ \cup {Head(elements)},
                   !.dots = @ \cup {DotRow(Head(elements), dot)}],
         Tail(elements), dot, deleted)

RECURSIVE add_elements_loop(_, _, _, _)
add_elements_loop(d, elements, dot, deleted) ==
  IF elements = <<>> THEN [db |-> d, deleted |-> deleted]
  ELSE LET e == Head(elements)
           existing == DotsOn(d, e)
           d1 == [d EXCEPT !.elements = @ \cup {e},
                           !.dots = (@ \ existing) \cup {DotRow(e, dot)}]
       IN add_elements_loop(d1, Tail(elements), dot,
                            deleted \cup {RowDot(r) : r \in existing})

\* A local add that writes element and dot rows without the set's row.
add_elements_no_set_row(d, elements, dot) ==
  LET r == add_elements_loop(d, elements, dot, {})
  IN [ok |-> TRUE, db |-> upsert_vv(r.db, dot), deleted |-> r.deleted]

add_elements(d, elements, dot) ==
  IF elements = <<>> THEN [ok |-> TRUE, db |-> d, deleted |-> {}]
  ELSE LET r == add_elements_loop([d EXCEPT !.sets = TRUE], elements, dot, {})
       IN [ok |-> TRUE, db |-> upsert_vv(r.db, dot), deleted |-> r.deleted]

\* A local remove that deletes the dots of the elements and keeps their rows.
RECURSIVE remove_elements_keeps_rows(_, _, _)
remove_elements_keeps_rows(d, elements, deleted) ==
  IF elements = <<>> THEN [db |-> d, deleted |-> deleted]
  ELSE LET existing == DotsOn(d, Head(elements))
       IN remove_elements_keeps_rows([d EXCEPT !.dots = @ \ existing], Tail(elements),
                                     deleted \cup {RowDot(r) : r \in existing})

RECURSIVE remove_elements_loop(_, _, _)
remove_elements_loop(d, elements, deleted) ==
  IF elements = <<>> THEN [db |-> d, deleted |-> deleted]
  ELSE LET e == Head(elements)
           existing == IF e \in d.elements THEN DotsOn(d, e) ELSE {}
           deleted1 == deleted \cup {RowDot(r) : r \in existing}
           d1 == [d EXCEPT !.dots = @ \ existing,
                           !.elements = IF deleted1 # {} THEN @ \ {e} ELSE @]
       IN remove_elements_loop(d1, Tail(elements), deleted1)

remove_elements(d, elements, dot) ==
  IF elements = <<>> THEN [ok |-> TRUE, db |-> d, deleted |-> {}]
  ELSE IF ~d.sets THEN [ok |-> TRUE, db |-> d, deleted |-> {}]
  ELSE LET r == remove_elements_loop(d, elements, {})
       IN [ok |-> TRUE, db |-> upsert_vv(r.db, dot), deleted |-> r.deleted]

\* The rows DELETE ... WHERE element_id = ? AND (actor_id, counter) IN (..) hits.
Tombstoned(d, e, removed_dots) ==
  {r \in DotsOn(d, e) : RowDot(r) \in removed_dots}

RECURSIVE replicate_add_loop(_, _, _, _)
replicate_add_loop(d, elements, removed_dots, dot) ==
  IF elements = <<>> THEN [ok |-> TRUE, db |-> d]
  ELSE LET e == Head(elements)
           kept == d.dots \ Tombstoned(d, e, removed_dots)
           \* PRIMARY KEY (element_id, actor_id): a plain INSERT fails
           conflict == \E r \in kept : r.element = e /\ r.actor_id = dot.actor_id
           d1 == [d EXCEPT !.elements = @ \cup {e},
                           !.dots = kept \cup {DotRow(e, dot)}]
       IN IF conflict THEN [ok |-> FALSE, db |-> d]
          ELSE replicate_add_loop(d1, Tail(elements), removed_dots, dot)

replicate_add(d, elements, removed_dots, dot) ==
  IF elements = <<>> THEN [ok |-> TRUE, db |-> d, deleted |-> {}]
  ELSE LET r == replicate_add_loop([d EXCEPT !.sets = TRUE], elements, removed_dots, dot)
       IN IF r.ok THEN [ok |-> TRUE, db |-> upsert_vv(r.db, dot), deleted |-> {}]
          ELSE [ok |-> FALSE, db |-> d, deleted |-> {}]

\* A remote remove that deletes every dot of the listed elements, whatever
\* removed_dots says.
replicate_remove_all(d, elements, removed_dots, dot) == remove_elements(d, elements, dot)

\* A remote remove that deletes the listed dots and never an element row.
RECURSIVE replicate_remove_keeps_rows(_, _, _)
replicate_remove_keeps_rows(d, elements, removed_dots) ==
  IF elements = <<>> THEN d
  ELSE replicate_remove_keeps_rows(
         [d EXCEPT !.dots = @ \ Tombstoned(d, Head(elements), removed_dots)],
         Tail(elements), removed_dots)

RECURSIVE replicate_remove_loop(_, _, _)
replicate_remove_loop(d, elements, removed_dots) ==
  IF elements = <<>> THEN d
  ELSE LET e == Head(elements)
           kept == d.dots \ Tombstoned(d, e, removed_dots)
           d1 == IF e \in d.elements
                 THEN [d EXCEPT !.dots = kept,
                                !.elements = IF \E r \in kept : r.element = e
                                             THEN @ ELSE @ \ {e}]
                 ELSE d
       IN replicate_remove_loop(d1, Tail(elements), removed_dots)

replicate_remove(d, elements, removed_dots, dot) ==
  IF elements = <<>> THEN [ok |-> TRUE, db |-> d, deleted |-> {}]
  ELSE IF ~d.sets THEN [ok |-> TRUE, db |-> d, deleted |-> {}]
  ELSE [ok |-> TRUE,
        db |-> upsert_vv(replicate_remove_loop(d, elements, removed_dots), dot),
        deleted |-> {}]

---------------------------------------------------------------------------
(* server.rs: Server                                                       *)

\* The Storage implementation Server is instantiated with is not part of the
\* source; its calls are bound to SqliteStorage as the design states them:
\* sadd calls add_elements, srem calls remove_elements, and
\* apply_remote_operation dispatches to replicate_add or replicate_remove.
storage_add(d, members, dot) == add_elements(d, members, dot)

storage_remove(d, members, dot) == remove_elements(d, members, dot)

storage_dispatch(d, op_type, elements, removed_dots, dot) ==
  IF op_type = "Add"
  THEN replicate_add(d, elements, removed_dots, dot)
  ELSE replicate_remove(d, elements, removed_dots, dot)

Operation(op_type, elements, dot, removed_dots, context) ==
  [op_type |-> op_type, elements |-> elements, dot |-> dot,
   removed_dots |-> removed_dots, context |-> context]

\* CommandResult (server.rs): the variants a command returns.
Ok(v) == [kind |-> "Ok", vv |-> v]

NotReady(v) == [kind |-> "NotReady", vv |-> v]

Integer(i) == [kind |-> "Integer", value |-> i]

BoolArray(b) == [kind |-> "BoolArray", value |-> b]

BytesArray(m) == [kind |-> "BytesArray", value |-> m]

Error == [kind |-> "Error"]

\* The Option<Operation> of a command that produced no operation.
NoOperation == [op_type |-> "None"]

\* The connection handlers (tasks spawned by ReplicationServer::run) of the
\* node whose endpoint is followed statement by statement.
MaxHandlers == 2

\* A handler between two messages: pc is its place in handle_connection and
\* try_apply_buffered, op the operation it holds, and i, buffer_len and
\* applied_this_pass the locals of its pass.
Idle == [pc |-> "idle", op |-> NoOperation, i |-> 0, buffer_len |-> 0, applied_this_pass |-> 0]

\* A local add that mints its dot without looking at the member list.
sadd_unchecked(v, d, actor, members) ==
  LET v1 == increment(v, actor)
      dot == Dot(actor, v1[actor])
      r == storage_add(d, members, dot)
  IN [vv |-> v1, db |-> r.db, result |-> Ok(v1),
      op |-> Operation("Add", members, dot, {}, v)]

\* A local remove that mints its dot without looking at the member list.
srem_unchecked(v, d, actor, members) ==
  LET v1 == increment(v, actor)
      dot == Dot(actor, v1[actor])
      r == storage_remove(d, members, dot)
  IN [vv |-> v1, db |-> r.db, result |-> Ok(v1),
      op |-> Operation("Remove", members, dot, {}, v)]

\* Server::sadd: [vv, db, result, op].  An empty member list is rejected
\* before the version vector is read.
sadd(v, d, actor, members) ==
  IF members = <<>>
  THEN [vv |-> v, db |-> d, result |-> Error, op |-> NoOperation]
  ELSE LET context == v
           v1 == increment(v, actor)
           dot == Dot(actor, v1[actor])
           r == storage_add(d, members, dot)
       IN [vv |-> v1, db |-> r.db, result |-> Ok(v1),
           op |-> Operation("Add", members, dot, {}, context)]

\* Server::sadd whose storage call returns Err: the `?` returns the error
\* with the write guard's increment already made; no operation is built.
sadd_storage_err(v, d, actor) == [vv |-> increment(v, actor), db |-> d]

\* Server::srem: [vv, db, result, op].
srem(v, d, actor, members) ==
  IF members = <<>>
  THEN [vv |-> v, db |-> d, result |-> Error, op |-> NoOperation]
  ELSE LET context == v
           v1 == increment(v, actor)
           dot == Dot(actor, v1[actor])
           r == storage_remove(d, members, dot)
       IN [vv |-> v1, db |-> r.db, result |-> Ok(v1),
           op |-> Operation("Remove", members, dot, {}, context)]

\* Server::srem whose storage call returns Err.
srem_storage_err(v, d, actor) == [vv |-> increment(v, actor), db |-> d]

count_elements(d) == Cardinality(get_elements(d))

are_members(d, elements) == [i \in 1..Len(elements) |-> is_member(d, elements[i])]

\* A cardinality read that skips the causality check.
scard_unchecked(v, d, client_vv) == Integer(count_elements(d))

\* The causality check of every read.  client_vv is an Option: {} is None and
\* {cv} is Some(cv).
causality_fails(v, client_vv) == \E cv \in client_vv : ~descends(v, cv)

scard(v, d, client_vv) ==
  IF causality_fails(v, client_vv) THEN NotReady(v)
  ELSE Integer(count_elements(d))

smembers(v, d, client_vv) ==
  IF causality_fails(v, client_vv) THEN NotReady(v)
  ELSE BytesArray(get_elements(d))

sismember(v, d, member, client_vv) ==
  IF causality_fails(v, client_vv) THEN NotReady(v)
  ELSE Integer(IF is_member(d, member) THEN 1 ELSE 0)

\* The empty member list is rejected before the causality check.
smismember(v, d, members, client_vv) ==
  IF members = <<>> THEN Error
  ELSE IF causality_fails(v, client_vv) THEN NotReady(v)
  ELSE BoolArray(are_members(d, members))

\* A server that updates its version vector before the causality check.
apply_update_first(v, d, op) ==
  LET v1 == update(v, op.dot.actor_id, op.dot.counter)
  IN IF ~descends(v, op.context) THEN [result |-> "gap", vv |-> v1, db |-> d]
     ELSE LET r == storage_dispatch(d, op.op_type, op.elements, op.removed_dots, op.dot)
          IN [result |-> IF r.ok THEN "applied" ELSE "error", vv |-> v1, db |-> r.db]

\* Server::apply_remote_operation: [result, vv, db].
apply_remote_operation(v, d, op) ==
  IF ~descends(v, op.context) THEN [result |-> "gap", vv |-> v, db |-> d]
  ELSE LET v1 == update(v, op.dot.actor_id, op.dot.counter)
           r == storage_dispatch(d, op.op_type, op.elements, op.removed_dots, op.dot)
       IN [result |-> IF r.ok THEN "applied" ELSE "error", vv |-> v1, db |-> r.db]

---------------------------------------------------------------------------
(* buffers.rs: PendingBuffer                                               *)

\* A full buffer that makes room by dropping its oldest operation.
PendingAddDropOldest(buf, op) ==
  IF Len(buf) >= PendingCapacity THEN Append(Tail(buf), op) ELSE Append(buf, op)

\* PendingBuffer::add: the boolean it returns.
PendingAddReturns(buf, op) == ~(Len(buf) >= PendingCapacity)

\* PendingBuffer::add: the buffer afterwards (unchanged when full).
PendingAdd(buf, op) == IF Len(buf) >= PendingCapacity THEN buf ELSE Append(buf, op)

\* PendingBuffer::remove(index), index counted from 0.
PendingRemove(buf, i) ==
  IF i < Len(buf)
  THEN [k \in 1..(Len(buf) - 1) |-> IF k <= i THEN buf[k] ELSE buf[k + 1]]
  ELSE buf

---------------------------------------------------------------------------
(* replication/server.rs: the replication endpoint.  A node is the record  *)
(* [vv, db, pending, applied] of one replica.                              *)

Via(op, via) == [dot |-> op.dot, via |-> via]

Node(n) == [vv |-> vv[n], db |-> db[n], pending |-> pending[n], applied |-> applied[n]]

\* One pass of try_apply_buffered's inner while loop from index i (from 0).
RECURSIVE try_apply_pass(_, _, _, _)
try_apply_pass(node, i, buffer_len, applied_this_pass) ==
  IF i >= buffer_len \/ i >= Len(node.pending)
  THEN [node |-> node, applied_this_pass |-> applied_this_pass]
  ELSE LET op == node.pending[i + 1]
           r == apply_remote_operation(node.vv, node.db, op)
       IN IF r.result = "applied"
          THEN try_apply_pass([node EXCEPT !.vv = r.vv, !.db = r.db,
                                           !.pending = PendingRemove(@, i),
                                           !.applied = @ \cup {Via(op, "buffer")}],
                              i, buffer_len, applied_this_pass + 1)
          ELSE try_apply_pass([node EXCEPT !.vv = r.vv, !.db = r.db],
                              i + 1, buffer_len, applied_this_pass)

\* A drain that stops only after a second pass in a row applied nothing.
RECURSIVE try_apply_buffered_recheck(_, _)
try_apply_buffered_recheck(node, total_applied) ==
  LET p == try_apply_pass(node, 0, Len(node.pending), 0)
  IN IF p.applied_this_pass = 0
     THEN [node |-> p.node, total_applied |-> total_applied, passes |-> 2]
     ELSE [try_apply_buffered_recheck(p.node, total_applied + p.applied_this_pass)
             EXCEPT !.passes = @ + 1]

\* ReplicationServer::try_apply_buffered: passes until one applies nothing.
\* passes counts the iterations of the outer loop, the last one included.
RECURSIVE try_apply_buffered(_, _)
try_apply_buffered(node, total_applied) ==
  LET p == try_apply_pass(node, 0, Len(node.pending), 0)
  IN IF p.applied_this_pass = 0
     THEN [node |-> p.node, total_applied |-> total_applied, passes |-> 1]
     ELSE [try_apply_buffered(p.node, total_applied + p.applied_this_pass)
             EXCEPT !.passes = @ + 1]

\* An endpoint that applies or buffers but never drains the pending buffer.
handle_without_drain(node, op) ==
  LET r == apply_remote_operation(node.vv, node.db, op)
      node1 == [node EXCEPT !.vv = r.vv, !.db = r.db]
  IN CASE r.result = "applied" -> [node1 EXCEPT !.applied = @ \cup {Via(op, "direct")}]
       [] r.result = "gap" -> [node1 EXCEPT !.pending = PendingAdd(@, op)]
       [] OTHER -> node1

\* ReplicationServer::handle_connection for one decoded operation.
handle_connection(node, op) ==
  LET r == apply_remote_operation(node.vv, node.db, op)
      node1 == [node EXCEPT !.vv = r.vv, !.db = r.db]
  IN CASE r.result = "applied" ->
            try_apply_buffered([node1 EXCEPT !.applied = @ \cup {Via(op, "direct")}], 0).node
       [] r.result = "gap" -> [node1 EXCEPT !.pending = PendingAdd(@, op)]
       [] OTHER -> node1

---------------------------------------------------------------------------
(* tests/proptest.rs: the reference add-wins set                           *)

AddWinsSetNew == [adds |-> [e \in Elements |-> {}], removes |-> [e \in Elements |-> {}]]

AddWinsSet_add(s, elem, tag) ==
  [adds |-> [s.adds EXCEPT ![elem] = @ \cup {tag}],
   removes |-> [s.removes EXCEPT ![elem] = @ \cup s.adds[elem]]]

AddWinsSet_remove(s, elem) ==
  [s EXCEPT !.removes[elem] = @ \cup s.adds[elem]]

AddWinsSet_members(s) ==
  {e \in Elements : s.adds[e] # {} /\ ~(s.adds[e] \subseteq s.removes[e])}

AddWinsSet_merge(s, other) ==
  [adds |-> [e \in Elements |-> s.adds[e] \cup other.adds[e]],
   removes |-> [e \in Elements |-> s.removes[e] \cup other.removes[e]]]

---------------------------------------------------------------------------
(* The cluster: client writes at a node, and delivery of any produced      *)
(* operation to any other node, in any order and any number of times.      *)

RECURSIVE SumLen(_, _)
SumLen(f, S) ==
  IF S = {} THEN 0
  ELSE LET n == CHOOSE m \in S : TRUE IN Len(f[n]) + SumLen(f, S \ {n})

TotalOps == SumLen(out, Actors)

\* The dots of the remote operations applied at node n.
Applied(n) == {r.dot : r \in applied[n]}

Produced == UNION {{out[m][i] : i \in 1..Len(out[m])} : m \in Actors}

Init ==
  /\ vv = [n \in Actors |-> load_vv(DbNew)]
  /\ db = [n \in Actors |-> DbNew]
  /\ out = [n \in Actors |-> <<>>]
  /\ pending = [n \in Actors |-> <<>>]
  /\ applied = [n \in Actors |-> {}]
  /\ ref = [clock |-> 0, nodes |-> [n \in Actors |-> AddWinsSetNew], panicked |-> FALSE]
  /\ repl = [up |-> {}, tasks |-> {}, wire |-> {}, returned |-> {}, calls |-> {},
             handlers |-> [h \in 1..MaxHandlers |-> Idle],
             conn |-> [frames |-> <<>>, written |-> 0, open |-> TRUE],
             unacked |-> [n \in Actors |-> [p \in Actors |-> <<>>]]]

\* Node n commits the local write r = [vv, db, op] and hands out r.op.
Commit(n, r) ==
  /\ vv' = [vv EXCEPT ![n] = r.vv]
  /\ db' = [db EXCEPT ![n] = r.db]
  /\ out' = [out EXCEPT ![n] = Append(@, r.op)]

\* A client's SADD at node n (Server::sadd).
Sadd(n, members) ==
  /\ TotalOps < MaxOps
  /\ Commit(n, sadd(vv[n], db[n], n, members))
  /\ UNCHANGED <<pending, applied, ref, repl>>

\* A client's SREM at node n (Server::srem).
Srem(n, members) ==
  /\ TotalOps < MaxOps
  /\ Commit(n, srem(vv[n], db[n], n, members))
  /\ UNCHANGED <<pending, applied, ref, repl>>

\* The state of node n becomes node (a [vv, db, pending, applied] record).
SetNode(n, node) ==
  /\ vv' = [vv EXCEPT ![n] = node.vv]
  /\ db' = [db EXCEPT ![n] = node.db]
  /\ pending' = [pending EXCEPT ![n] = node.pending]
  /\ applied' = [applied EXCEPT ![n] = node.applied]

\* Node n's replication endpoint receives op from a peer.
Receive(n, op) ==
  /\ op.dot.actor_id # n
  /\ UNCHANGED <<out, ref, repl>>
  /\ SetNode(n, handle_connection(Node(n), op))

Next ==
  \/ \E n \in Linked, members \in MemberLists : Sadd(n, members)
  \/ \E n \in Linked, members \in MemberLists : Srem(n, members)
  \/ \E n \in Linked, op \in Produced : Receive(n, op)

Spec == Init /\ [][Next]_vars

---------------------------------------------------------------------------
(* tests/proptest.rs: the state-machine test.  Cluster<BigsetNode> is the  *)
(* three servers, each with an out_buffer (out) and a PendingBuffer        *)
(* (pending); Cluster<ModelNode> is ref.  ref.panicked records that an     *)
(* unwrap() of the harness hit an Err, which ends the test case.           *)

RECURSIVE PendingAddAll(_, _)
PendingAddAll(buf, ops) ==
  IF ops = <<>> THEN buf ELSE PendingAddAll(PendingAdd(buf, Head(ops)), Tail(ops))

\* for op in self.pending_buffer.drain() { ... } of merge_state
RECURSIVE merge_state_drain(_, _, _)
merge_state_drain(node, ops, progress) ==
  IF ops = <<>> THEN [node |-> node, progress |-> progress, panicked |-> FALSE]
  ELSE LET op == Head(ops)
           r == apply_remote_operation(node.vv, node.db, op)
           node1 == [node EXCEPT !.vv = r.vv, !.db = r.db]
       IN CASE r.result = "error" ->
                 [node |-> node1, progress |-> progress, panicked |-> TRUE]
            [] r.result = "applied" ->
                 merge_state_drain([node1 EXCEPT !.applied = @ \cup {Via(op, "buffer")}],
                                   Tail(ops), TRUE)
            [] OTHER ->
                 merge_state_drain([node1 EXCEPT !.pending = PendingAdd(@, op)],
                                   Tail(ops), progress)

\* while progress.take().unwrap_or(false) { ... } of merge_state
RECURSIVE merge_state_loop(_)
merge_state_loop(node) ==
  LET r == merge_state_drain([node EXCEPT !.pending = <<>>], node.pending, FALSE)
  IN IF r.panicked \/ ~r.progress
     THEN [node |-> r.node, panicked |-> r.panicked]
     ELSE merge_state_loop(r.node)

\* BigsetNode::merge_state
merge_state(node, ops) ==
  merge_state_loop([node EXCEPT !.pending = PendingAddAll(@, ops)])

\* Op::Update(n, SetOp::Add(elem)) / Op::Update(n, SetOp::Remove(elem))
Update(n, kind, elem) ==
  /\ ~ref.panicked
  /\ TotalOps < MaxOps
  /\ kind = "Remove" => elem \in AddWinsSet_members(ref.nodes[n])
  /\ Commit(n, IF kind = "Add" THEN sadd(vv[n], db[n], n, <<elem>>)
                               ELSE srem(vv[n], db[n], n, <<elem>>))
  /\ ref' = [ref EXCEPT !.clock = @ + 1,
                        !.nodes[n] = IF kind = "Add"
                                     THEN AddWinsSet_add(@, elem, ref.clock + 1)
                                     ELSE AddWinsSet_remove(@, elem)]
  /\ UNCHANGED <<pending, applied, repl>>

\* Op::Replicate(from, to).  The harness buffer (1000 slots) never fills:
\* the transition is taken only while the modelled buffer has room.
Replicate(from, to) ==
  /\ ~ref.panicked
  /\ from # to
  /\ Len(pending[to]) + Len(out[from]) <= PendingCapacity
  /\ LET r == merge_state(Node(to), out[from])
     IN /\ SetNode(to, r.node)
        /\ ref' = [ref EXCEPT !.nodes[to] = AddWinsSet_merge(@, ref.nodes[from]),
                              !.panicked = r.panicked]
  /\ UNCHANGED <<out, repl>>

NextPT ==
  \/ \E n \in Actors, kind \in {"Add", "Remove"}, elem \in Elements : Update(n, kind, elem)
  \/ \E from \in Actors, to \in Actors : Replicate(from, to)

SpecPT == Init /\ [][NextPT]_vars

---------------------------------------------------------------------------
(* wrapper.rs and replication/manager.rs: a write spawns a task that       *)
(* sends the operation to each peer in turn; a failed send is put in the   *)
(* unacked buffer.  repl.up is the set of reachable peers; a peer that     *)
(* came up stays up.                                                       *)

\* ReplicationManager.peers of node n, in BTreeSet order.
RECURSIVE SortedSeq(_)
SortedSeq(S) ==
  IF S = {} THEN <<>>
  ELSE LET m == CHOOSE a \in S : \A b \in S : a <= b
       IN <<m>> \o SortedSeq(S \ {m})

peers(n) == SortedSeq(Linked \ {n})

\* tokio::spawn(async move { replication.send(op).await })
Spawn(n, op) ==
  [repl EXCEPT !.tasks = @ \cup {[from |-> n, op |-> op, peers |-> peers(n)]}]

\* ServerWrapper::sadd
WrapperSadd(n, members) ==
  /\ TotalOps < MaxOps
  /\ LET r == sadd(vv[n], db[n], n, members)
     IN Commit(n, r) /\ repl' = Spawn(n, r.op)
  /\ UNCHANGED <<pending, applied, ref>>

\* ServerWrapper::srem
WrapperSrem(n, members) ==
  /\ TotalOps < MaxOps
  /\ LET r == srem(vv[n], db[n], n, members)
     IN Commit(n, r) /\ repl' = Spawn(n, r.op)
  /\ UNCHANGED <<pending, applied, ref>>

\* UnackedBuffer::add: the entry is (op, sent_at, retry_count) with
\* retry_count 0; the timestamp is left out.
UnackedAdd(buf, op) == Append(buf, [op |-> op, retry_count |-> 0])

\* A send that gives up at the first peer it cannot reach.
send_stops_on_failure(t) ==
  LET p == Head(t.peers)
      rest == IF Tail(t.peers) = <<>> THEN {} ELSE {[t EXCEPT !.peers = Tail(@)]}
  IN /\ t \in repl.tasks
     /\ repl' = IF p \in repl.up
                THEN [repl EXCEPT !.tasks = (@ \ {t}) \cup rest,
                                  !.wire = @ \cup {[to |-> p, op |-> t.op]},
                                  !.returned = IF rest = {}
                                               THEN @ \cup {[from |-> t.from, op |-> t.op,
                                                             result |-> "Ok"]}
                                               ELSE @]
                ELSE [repl EXCEPT !.tasks = @ \ {t},
                                  !.unacked[t.from][p] = UnackedAdd(@, t.op),
                                  !.returned = @ \cup {[from |-> t.from, op |-> t.op,
                                                        result |-> "Err"]}]
     /\ UNCHANGED <<vv, db, out, pending, applied, ref>>

\* One iteration of ReplicationManager::send's loop over the peers; after
\* the last peer send returns Ok(()), recorded in repl.returned.
send(t) ==
  LET p == Head(t.peers)
      rest == IF Tail(t.peers) = <<>> THEN {} ELSE {[t EXCEPT !.peers = Tail(@)]}
      returned == IF rest = {}
                  THEN {[from |-> t.from, op |-> t.op, result |-> "Ok"]}
                  ELSE {}
  IN /\ t \in repl.tasks
     /\ repl' = IF p \in repl.up
                THEN [repl EXCEPT !.tasks = (@ \ {t}) \cup rest,
                                  !.wire = @ \cup {[to |-> p, op |-> t.op]},
                                  !.returned = @ \cup returned]
                ELSE [repl EXCEPT !.tasks = (@ \ {t}) \cup rest,
                                  !.unacked[t.from][p] = UnackedAdd(@, t.op),
                                  !.returned = @ \cup returned]
     /\ UNCHANGED <<vv, db, out, pending, applied, ref>>

\* The message m reaches its destination's handle_connection.
Deliver(m) ==
  /\ m \in repl.wire
  /\ SetNode(m.to, handle_connection(Node(m.to), m.op))
  /\ repl' = [repl EXCEPT !.wire = @ \ {m}]
  /\ UNCHANGED <<out, ref>>

\* Peer p becomes reachable.
PeerUp(p) ==
  /\ p \notin repl.up
  /\ repl' = [repl EXCEPT !.up = @ \cup {p}]
  /\ UNCHANGED <<vv, db, out, pending, applied, ref>>

NextNet ==
  \/ \E n \in Linked, members \in MemberLists : WrapperSadd(n, members)
  \/ \E n \in Linked, members \in MemberLists : WrapperSrem(n, members)
  \/ \E t \in repl.tasks : send(t)
  \/ \E m \in repl.wire : Deliver(m)
  \/ \E p \in Linked : PeerUp(p)

\* Spawned tasks run, the network delivers, and every peer comes up.
SpecNet ==
  /\ Init
  /\ [][NextNet]_vars
  /\ WF_vars(\E t \in repl.tasks : send(t))
  /\ WF_vars(\E m \in repl.wire : Deliver(m))
  /\ WF_vars(\E p \in Linked : PeerUp(p))

---------------------------------------------------------------------------
(* The full mesh: every node is configured with both other nodes as peers, *)
(* so that one send makes two attempts.                                    *)

\* The node of the mesh that takes the client's writes, MaxMeshOps of them.
MeshNode == 1

MaxMeshOps == 2

mesh_peers(n) == SortedSeq(Actors \ {n})

\* ServerWrapper::sadd of a node of the mesh.
MeshSadd(n, members) ==
  /\ TotalOps < MaxMeshOps
  /\ LET r == sadd(vv[n], db[n], n, members)
     IN /\ Commit(n, r)
        /\ repl' = [repl EXCEPT !.tasks = @ \cup {[from |-> n, op |-> r.op,
                                                   peers |-> mesh_peers(n)]}]
  /\ UNCHANGED <<pending, applied, ref>>

\* ServerWrapper::srem of a node of the mesh.
MeshSrem(n, members) ==
  /\ TotalOps < MaxMeshOps
  /\ LET r == srem(vv[n], db[n], n, members)
     IN /\ Commit(n, r)
        /\ repl' = [repl EXCEPT !.tasks = @ \cup {[from |-> n, op |-> r.op,
                                                   peers |-> mesh_peers(n)]}]
  /\ UNCHANGED <<pending, applied, ref>>

NextMesh ==
  \/ \E members \in MemberLists : MeshSadd(MeshNode, members)
  \/ \E members \in MemberLists : MeshSrem(MeshNode, members)
  \/ \E t \in repl.tasks : send(t)
  \/ \E m \in repl.wire : Deliver(m)
  \/ \E p \in Actors : PeerUp(p)

SpecMesh == Init /\ [][NextMesh]_vars

---------------------------------------------------------------------------
(* replication/server.rs: one peer connection of node ConnNode.  The peer  *)
(* writes length-prefixed frames; repl.conn holds the frames not yet read, *)
(* the number written so far, and whether handle_connection still runs.    *)
(* A frame body is an encoded operation, a protobuf message without the    *)
(* required fields, or bytes that are no protobuf message.                 *)

ConnNode == 2

MaxFrames == 3

Encoded(op) == [body |-> "operation", op |-> op]

Unfilled == [body |-> "unfilled", op |-> NoOperation]

Garbage == [body |-> "garbage", op |-> NoOperation]

\* prost's Operation::decode(&buf[..])
decode(frame) == IF frame.body = "garbage" THEN "Err" ELSE "Ok"

\* proto_to_operation: an Option, {} is None.
proto_to_operation(frame) == IF frame.body = "operation" THEN {frame.op} ELSE {}

\* The peer writes one more frame on the connection.
WriteFrame(frame) ==
  /\ repl.conn.written < MaxFrames
  /\ repl' = [repl EXCEPT !.conn.frames = Append(@, frame), !.conn.written = @ + 1]
  /\ UNCHANGED <<vv, db, out, pending, applied, ref>>

\* One iteration of handle_connection's loop: the `?` on decode returns the
\* error and the socket is dropped with the task; a message without its
\* fields is skipped with `continue`; an operation is applied or buffered.
ReadFrame ==
  /\ repl.conn.open
  /\ repl.conn.frames # <<>>
  /\ LET frame == Head(repl.conn.frames)
     IN IF decode(frame) = "Err"
        THEN /\ repl' = [repl EXCEPT !.conn.frames = Tail(@), !.conn.open = FALSE]
             /\ UNCHANGED <<vv, db, pending, applied>>
        ELSE IF proto_to_operation(frame) = {}
        THEN /\ repl' = [repl EXCEPT !.conn.frames = Tail(@)]
             /\ UNCHANGED <<vv, db, pending, applied>>
        ELSE /\ repl' = [repl EXCEPT !.conn.frames = Tail(@)]
             /\ SetNode(ConnNode, handle_connection(Node(ConnNode), frame.op))
  /\ UNCHANGED <<out, ref>>

NextConn ==
  \/ \E n \in Linked \ {ConnNode}, members \in MemberLists : Sadd(n, members)
  \/ \E n \in Linked \ {ConnNode}, members \in MemberLists : Srem(n, members)
  \/ \E op \in Produced : WriteFrame(Encoded(op))
  \/ WriteFrame(Unfilled)
  \/ WriteFrame(Garbage)
  \/ ReadFrame

SpecConn == Init /\ [][NextConn]_vars

---------------------------------------------------------------------------
(* server.rs with concurrent callers: Server::sadd and Server::srem clone  *)
(* the context under a read guard that is dropped at the end of that       *)
(* statement, and take the write guard in the next one.  repl.calls holds  *)
(* the calls of node RaceNode that stand between the two statements.       *)

RaceNode == 1

\* let context = self.version_vector.read().await.clone();
capture_context(n, kind, members) ==
  [id |-> CHOOSE i \in 1..MaxOps :
            /\ \A c \in repl.calls : c.id # i
            /\ \A j \in 1..(i - 1) : \E c \in repl.calls : c.id = j,
   node |-> n, kind |-> kind, members |-> members, context |-> vv[n]]

\* Server::sadd from the write guard on: [vv, db, result, op].
sadd_write(v, d, actor, members, context) ==
  LET v1 == increment(v, actor)
      dot == Dot(actor, v1[actor])
      r == storage_add(d, members, dot)
  IN [vv |-> v1, db |-> r.db, result |-> Ok(v1),
      op |-> Operation("Add", members, dot, {}, context)]

\* Server::srem from the write guard on.
srem_write(v, d, actor, members, context) ==
  LET v1 == increment(v, actor)
      dot == Dot(actor, v1[actor])
      r == storage_remove(d, members, dot)
  IN [vv |-> v1, db |-> r.db, result |-> Ok(v1),
      op |-> Operation("Remove", members, dot, {}, context)]

\* A client's call reaches the end of the statement that clones the context.
BeginWrite(n, kind, members) ==
  /\ TotalOps + Cardinality(repl.calls) < MaxOps
  /\ repl' = [repl EXCEPT !.calls = @ \cup {capture_context(n, kind, members)}]
  /\ UNCHANGED <<vv, db, out, pending, applied, ref>>

\* The call takes the write guard and runs to its return.
FinishSadd(call) ==
  /\ call \in repl.calls /\ call.kind = "Add"
  /\ Commit(call.node, sadd_write(vv[call.node], db[call.node], call.node,
                                  call.members, call.context))
  /\ repl' = [repl EXCEPT !.calls = @ \ {call}]
  /\ UNCHANGED <<pending, applied, ref>>

FinishSrem(call) ==
  /\ call \in repl.calls /\ call.kind = "Remove"
  /\ Commit(call.node, srem_write(vv[call.node], db[call.node], call.node,
                                  call.members, call.context))
  /\ repl' = [repl EXCEPT !.calls = @ \ {call}]
  /\ UNCHANGED <<pending, applied, ref>>

\* A write of another node, taken in one piece.
RaceSadd(n, members) ==
  /\ TotalOps + Cardinality(repl.calls) < MaxOps
  /\ Sadd(n, members)

NextRace ==
  \/ \E kind \in {"Add", "Remove"}, members \in MemberLists :
       BeginWrite(RaceNode, kind, members)
  \/ \E call \in repl.calls : FinishSadd(call)
  \/ \E call \in repl.calls : FinishSrem(call)
  \/ \E n \in Linked \ {RaceNode}, members \in MemberLists : RaceSadd(n, members)
  \/ \E op \in Produced : Receive(RaceNode, op)

SpecRace == Init /\ [][NextRace]_vars

---------------------------------------------------------------------------
(* replication/server.rs with concurrent connections: run spawns one task  *)
(* per accepted connection, and the tasks of node ConnNode share its       *)
(* Server and its PendingBuffer.  A step is the code between two lock      *)
(* acquisitions; apply_remote_operation runs under the VV write guard and  *)
(* is one step.                                                            *)

SetHandler(h, rec) == repl' = [repl EXCEPT !.handlers[h] = rec]

\* handle_connection: a message is read and apply_remote_operation called.
HandlerApply(h, op) ==
  /\ repl.handlers[h].pc = "idle"
  /\ op.dot.actor_id # ConnNode
  /\ LET r == apply_remote_operation(vv[ConnNode], db[ConnNode], op)
     IN /\ vv' = [vv EXCEPT ![ConnNode] = r.vv]
        /\ db' = [db EXCEPT ![ConnNode] = r.db]
        /\ applied' = [applied EXCEPT ![ConnNode] =
                         IF r.result = "applied" THEN @ \cup {Via(op, "direct")} ELSE @]
        /\ SetHandler(h, CASE r.result = "applied" -> [Idle EXCEPT !.pc = "drain"]
                           [] r.result = "gap" -> [Idle EXCEPT !.pc = "add", !.op = op]
                           [] OTHER -> Idle)
  /\ UNCHANGED <<out, pending, ref>>

\* handle_connection: buffer.add(operation) under the buffer's write guard.
BufferAdd(h) ==
  /\ repl.handlers[h].pc = "add"
  /\ pending' = [pending EXCEPT ![ConnNode] = PendingAdd(@, repl.handlers[h].op)]
  /\ SetHandler(h, Idle)
  /\ UNCHANGED <<vv, db, out, applied, ref>>

\* try_apply_buffered: a pass starts with buffer_len = buffer.len().
PassStart(h) ==
  /\ repl.handlers[h].pc = "drain"
  /\ SetHandler(h, [Idle EXCEPT !.pc = "read", !.buffer_len = Len(pending[ConnNode])])
  /\ UNCHANGED <<vv, db, out, pending, applied, ref>>

\* try_apply_buffered: the head of the while loop and the clone of
\* operations()[i]; the pass ends at buffer_len or at the end of the buffer.
PassRead(h) ==
  LET me == repl.handlers[h]
  IN /\ me.pc = "read"
     /\ SetHandler(h, IF me.i >= me.buffer_len \/ me.i >= Len(pending[ConnNode])
                      THEN IF me.applied_this_pass = 0 THEN Idle
                           ELSE [Idle EXCEPT !.pc = "drain"]
                      ELSE [me EXCEPT !.pc = "apply", !.op = pending[ConnNode][me.i + 1]])
     /\ UNCHANGED <<vv, db, out, pending, applied, ref>>

\* try_apply_buffered: apply_remote_operation(op.clone()).
ApplyBuffered(h) ==
  LET me == repl.handlers[h]
      r == apply_remote_operation(vv[ConnNode], db[ConnNode], me.op)
  IN /\ me.pc = "apply"
     /\ vv' = [vv EXCEPT ![ConnNode] = r.vv]
     /\ db' = [db EXCEPT ![ConnNode] = r.db]
     /\ applied' = [applied EXCEPT ![ConnNode] =
                      IF r.result = "applied" THEN @ \cup {Via(me.op, "buffer")} ELSE @]
     /\ SetHandler(h, IF r.result = "applied"
                      THEN [me EXCEPT !.pc = "remove", !.op = NoOperation]
                      ELSE [me EXCEPT !.pc = "read", !.op = NoOperation, !.i = @ + 1])
     /\ UNCHANGED <<out, pending, ref>>

\* try_apply_buffered: if i < buffer.len() { buffer.remove(i); ... }
BufferRemove(h) ==
  LET me == repl.handlers[h]
  IN /\ me.pc = "remove"
     /\ pending' = [pending EXCEPT ![ConnNode] = PendingRemove(@, me.i)]
     /\ SetHandler(h, [me EXCEPT !.pc = "read",
                                 !.applied_this_pass =
                                   IF me.i < Len(pending[ConnNode]) THEN @ + 1 ELSE @])
     /\ UNCHANGED <<vv, db, out, applied, ref>>

NextDrain ==
  \/ \E n \in Linked \ {ConnNode}, members \in MemberLists : Sadd(n, members)
  \/ \E n \in Linked \ {ConnNode}, members \in MemberLists : Srem(n, members)
  \/ \E h \in 1..MaxHandlers, op \in Produced : HandlerApply(h, op)
  \/ \E h \in 1..MaxHandlers : BufferAdd(h)
  \/ \E h \in 1..MaxHandlers : PassStart(h)
  \/ \E h \in 1..MaxHandlers : PassRead(h)
  \/ \E h \in 1..MaxHandlers : ApplyBuffered(h)
  \/ \E h \in 1..MaxHandlers : BufferRemove(h)

SpecDrain == Init /\ [][NextDrain]_vars

---------------------------------------------------------------------------
(* storage/sqlite.rs called directly: the four mutations of SqliteStorage  *)
(* applied to the store of one node with any member list, any dot and any  *)
(* removed_dots.  A failed transaction is rolled back: the call leaves     *)
(* the tables as they were.                                                *)

\* The node whose store is driven directly.
StoreNode == 1

\* The counters of the dots handed to the storage calls are 1..MaxCounter.
MaxCounter == 2

StoreDots == {Dot(a, c) : a \in Linked, c \in 1..MaxCounter}

\* The member lists handed to the storage calls: one element, two elements,
\* and one element listed twice.
StoreLists == MemberLists \cup {<<"x", "y">>, <<"x", "x">>}

\* The transaction with result r = [ok, db, deleted] ends.
StoreCommit(r) ==
  /\ db' = [db EXCEPT ![StoreNode] = r.db]
  /\ UNCHANGED <<vv, out, pending, applied, ref, repl>>

StoreAdd(elements, dot) ==
  StoreCommit(add_elements(db[StoreNode], elements, dot))

StoreRemove(elements, dot) ==
  StoreCommit(remove_elements(db[StoreNode], elements, dot))

StoreReplicateAdd(elements, removed_dots, dot) ==
  StoreCommit(replicate_add(db[StoreNode], elements, removed_dots, dot))

StoreReplicateRemove(elements, removed_dots, dot) ==
  StoreCommit(replicate_remove(db[StoreNode], elements, removed_dots, dot))

NextStore ==
  \/ \E elements \in StoreLists, dot \in StoreDots : StoreAdd(elements, dot)
  \/ \E elements \in StoreLists, dot \in StoreDots : StoreRemove(elements, dot)
  \/ \E elements \in StoreLists, removed_dots \in SUBSET StoreDots, dot \in StoreDots :
       StoreReplicateAdd(elements, removed_dots, dot)
  \/ \E elements \in StoreLists, removed_dots \in SUBSET StoreDots, dot \in StoreDots :
       StoreReplicateRemove(elements, removed_dots, dot)

SpecStore == Init /\ [][NextStore]_vars

---------------------------------------------------------------------------
(* The two-node cluster with storage failures and restarts: a write whose  *)
(* storage call fails (no connection from the pool, a failed statement or  *)
(* commit) returns the error to the client, and a restarted process builds *)
(* its Server with Server::new and an empty PendingBuffer.                 *)

\* The node whose storage fails and whose process restarts.
FaultNode == 1

\* The write of r = [vv, db] at node n returned an error to the client.
Failed(n, r) ==
  /\ TotalOps < MaxOps
  /\ vv[n][n] < MaxOps
  /\ vv' = [vv EXCEPT ![n] = r.vv]
  /\ db' = [db EXCEPT ![n] = r.db]
  /\ UNCHANGED <<out, pending, applied, ref, repl>>

SaddFails(n) == Failed(n, sadd_storage_err(vv[n], db[n], n))

SremFails(n) == Failed(n, srem_storage_err(vv[n], db[n], n))

\* The process of node n restarts: Server::new loads the vector from storage.
Restart(n) ==
  /\ vv' = [vv EXCEPT ![n] = load_vv(db[n])]
  /\ pending' = [pending EXCEPT ![n] = <<>>]
  /\ UNCHANGED <<db, out, applied, ref, repl>>

NextFault ==
  \/ \E n \in Linked, members \in MemberLists : Sadd(n, members)
  \/ \E n \in Linked, members \in MemberLists : Srem(n, members)
  \/ \E n \in Linked, op \in Produced : Receive(n, op)
  \/ SaddFails(FaultNode)
  \/ SremFails(FaultNode)
  \/ Restart(FaultNode)

SpecFault == Init /\ [][NextFault]_vars

---------------------------------------------------------------------------
(* types.rs as data: an ActorId is the record of its four bytes, a         *)
(* VersionVector is its HashMap (a function whose domain is the set of     *)
(* actors that have an entry, an entry of 0 included), and text is a       *)
(* sequence of characters.                                                 *)

U8_MAX == 255

U16_MAX == 65535

ActorId_new_with_version(version, node_id, epoch) ==
  [bytes |-> <<version, node_id \div 256, node_id % 256, epoch>>]

ActorId_version(a) == a.bytes[1]

ActorId_node_id(a) == a.bytes[2] * 256 + a.bytes[3]

ActorId_epoch(a) == a.bytes[4]

\* ActorId::bytes: the slice of the four bytes.
ActorId_bytes(a) == a.bytes

\* An ActorId built from the first three bytes of the slice.
ActorId_from_bytes_short(bytes) ==
  IF Len(bytes) # 4 THEN {}
  ELSE {[bytes |-> <<bytes[1], bytes[2], bytes[3], 0>>]}

\* ActorId::from_bytes: a Result, {} is Err.
ActorId_from_bytes(bytes) ==
  IF Len(bytes) # 4 THEN {}
  ELSE {[bytes |-> <<bytes[1], bytes[2], bytes[3], bytes[4]>>]}

\* derive(Ord) on the byte array: lexicographic order of the bytes.
ActorId_lt(a, b) ==
  \E i \in 1..4 : /\ a.bytes[i] < b.bytes[i]
                  /\ \A j \in 1..(i - 1) : a.bytes[j] = b.bytes[j]

DigitChars == <<"0", "1", "2", "3", "4", "5", "6", "7", "8", "9">>

\* Display of an unsigned integer.
RECURSIVE Decimal(_)
Decimal(n) ==
  IF n < 10 THEN <<DigitChars[n + 1]>>
  ELSE Decimal(n \div 10) \o <<DigitChars[(n % 10) + 1]>>

IsDigit(ch) == \E d \in 1..10 : DigitChars[d] = ch

RECURSIVE DigitsValue(_)
DigitsValue(s) ==
  IF s = <<>> THEN 0
  ELSE DigitsValue(SubSeq(s, 1, Len(s) - 1)) * 10
       + ((CHOOSE d \in 1..10 : DigitChars[d] = s[Len(s)]) - 1)

\* str::parse of an unsigned integer type with the given maximum: an
\* optional leading "+", then one digit or more; {} is Err.
parse_unsigned(s, max) ==
  LET digits == IF s # <<>> /\ Head(s) = "+" THEN Tail(s) ELSE s
  IN IF digits = <<>> \/ \E i \in 1..Len(digits) : ~IsDigit(digits[i]) THEN {}
     ELSE IF DigitsValue(digits) > max THEN {}
     ELSE {DigitsValue(digits)}

\* str::parse::<u64>; the counters of the model stay far below u64::MAX.
parse_u64(s) ==
  LET digits == IF s # <<>> /\ Head(s) = "+" THEN Tail(s) ELSE s
  IN IF digits = <<>> \/ \E i \in 1..Len(digits) : ~IsDigit(digits[i]) THEN {}
     ELSE {DigitsValue(digits)}

\* str::split(sep): the pieces between the separators.
RECURSIVE split(_, _)
split(s, sep) ==
  IF \E i \in 1..Len(s) : s[i] = sep
  THEN LET i == CHOOSE k \in 1..Len(s) : s[k] = sep /\ \A j \in 1..(k - 1) : s[j] # sep
       IN <<SubSeq(s, 1, i - 1)>> \o split(SubSeq(s, i + 1, Len(s)), sep)
  ELSE <<s>>

\* str::split_once(sep): the text before and after the first separator.
split_once(s, sep) ==
  IF \E i \in 1..Len(s) : s[i] = sep
  THEN LET i == CHOOSE k \in 1..Len(s) : s[k] = sep /\ \A j \in 1..(k - 1) : s[j] # sep
       IN {<<SubSeq(s, 1, i - 1), SubSeq(s, i + 1, Len(s))>>}
  ELSE {}

\* str::rsplit_once(sep): the text before and after the last separator.
rsplit_once(s, sep) ==
  IF \E i \in 1..Len(s) : s[i] = sep
  THEN LET i == CHOOSE k \in 1..Len(s) :
                  s[k] = sep /\ \A j \in (k + 1)..Len(s) : s[j] # sep
       IN {<<SubSeq(s, 1, i - 1), SubSeq(s, i + 1, Len(s))>>}
  ELSE {}

\* Display for ActorId: "v{version}:{node_id}:{epoch}".
ActorId_fmt(a) ==
  <<"v">> \o Decimal(ActorId_version(a)) \o <<":">> \o Decimal(ActorId_node_id(a))
          \o <<":">> \o Decimal(ActorId_epoch(a))

\* FromStr for ActorId: a Result, {} is Err.
ActorId_from_str(s) ==
  LET parts == split(s, ":")
  IN IF Len(parts) # 3 THEN {}
     ELSE IF parts[1] = <<>> \/ Head(parts[1]) # "v" THEN {}
     ELSE {ActorId_new_with_version(version, node_id, epoch) :
             version \in parse_unsigned(Tail(parts[1]), U8_MAX),
             node_id \in parse_unsigned(parts[2], U16_MAX),
             epoch \in parse_unsigned(parts[3], U8_MAX)}

VersionVector_new == [a \in {} |-> 0]

VersionVector_get(v, actor_id) == IF actor_id \in DOMAIN v THEN v[actor_id] ELSE 0

\* HashMap::insert
HashMap_insert(v, actor_id, counter) ==
  [a \in DOMAIN v \cup {actor_id} |-> IF a = actor_id THEN counter ELSE v[a]]

VersionVector_increment(v, actor_id) ==
  HashMap_insert(v, actor_id, VersionVector_get(v, actor_id) + 1)

\* An update that stores the counter it is given.
VersionVector_update_overwrite(v, actor_id, counter) == HashMap_insert(v, actor_id, counter)

\* VersionVector::update: entry().or_insert(0), then the maximum.
VersionVector_update(v, actor_id, counter) ==
  HashMap_insert(v, actor_id, Max(VersionVector_get(v, actor_id), counter))

\* The entries of a HashMap in the order of their keys.
RECURSIVE sort_by_key(_)
sort_by_key(keys) ==
  IF keys = {} THEN <<>>
  ELSE LET least == CHOOSE a \in keys : \A b \in keys \ {a} : ActorId_lt(a, b)
       IN <<least>> \o sort_by_key(keys \ {least})

\* VersionVector::merge: update with every entry of other (the iteration
\* order of the HashMap does not show in the result; key order is taken).
RECURSIVE merge_entries(_, _, _)
merge_entries(v, other, keys) ==
  IF keys = <<>> THEN v
  ELSE merge_entries(VersionVector_update(v, Head(keys), other[Head(keys)]),
                     other, Tail(keys))

VersionVector_merge(v, other) == merge_entries(v, other, sort_by_key(DOMAIN other))

\* A descends that looks only at the actors both vectors hold.
VersionVector_descends_shared(v, other) ==
  \A actor_id \in DOMAIN other \cap DOMAIN v : ~(v[actor_id] < other[actor_id])

VersionVector_descends(v, other) ==
  \A actor_id \in DOMAIN other : ~(VersionVector_get(v, actor_id) < other[actor_id])

RECURSIVE join(_, _)
join(pieces, sep) ==
  IF pieces = <<>> THEN <<>>
  ELSE IF Len(pieces) = 1 THEN pieces[1]
  ELSE pieces[1] \o <<sep>> \o join(Tail(pieces), sep)

\* VersionVector::to_string
VersionVector_to_string(v) ==
  IF DOMAIN v = {} THEN <<>>
  ELSE LET pairs == sort_by_key(DOMAIN v)
       IN join([i \in 1..Len(pairs) |->
                  ActorId_fmt(pairs[i]) \o <<":">> \o Decimal(v[pairs[i]])], ",")

\* A pair of the text read at its first colon.
parse_pair_first_colon(pair) ==
  {<<actor_id, counter>> : 
     actor_id \in UNION {ActorId_from_str(p[1]) : p \in split_once(pair, ":")},
     counter \in UNION {parse_u64(p[2]) : p \in split_once(pair, ":")}}

\* One pair of VersionVector::from_str: rsplit_once(':'), then the actor and
\* the counter; {} when any of the three fails.
parse_pair(pair) ==
  {<<actor_id, counter>> : 
     actor_id \in UNION {ActorId_from_str(p[1]) : p \in rsplit_once(pair, ":")},
     counter \in UNION {parse_u64(p[2]) : p \in rsplit_once(pair, ":")}}

RECURSIVE from_str_pairs(_, _)
from_str_pairs(pairs, counters) ==
  IF pairs = <<>> THEN {counters}
  ELSE IF parse_pair(Head(pairs)) = {} THEN {}
  ELSE LET entry == CHOOSE e \in parse_pair(Head(pairs)) : TRUE
       IN from_str_pairs(Tail(pairs), HashMap_insert(counters, entry[1], entry[2]))

\* VersionVector::from_str: an Option, {} is None.
VersionVector_from_str(s) ==
  IF s = <<>> THEN {VersionVector_new}
  ELSE from_str_pairs(split(s, ","), VersionVector_new)

(* The version vector type driven directly: two vectors v and o, held in   *)
(* vv.v and vv.o, are built by update, increment and merge from            *)
(* VersionVector::new, and parsed back from their text.                    *)

VVActors ==
  {ActorId_new_with_version(0, 1, 0), ActorId_new_with_version(0, 300, 2),
   ActorId_new_with_version(1, 12, 0)}

InitVV ==
  /\ vv = [v |-> VersionVector_new, o |-> VersionVector_new]
  /\ db = [n \in Actors |-> DbNew]
  /\ out = [n \in Actors |-> <<>>]
  /\ pending = [n \in Actors |-> <<>>]
  /\ applied = [n \in Actors |-> {}]
  /\ ref = [clock |-> 0, nodes |-> [n \in Actors |-> AddWinsSetNew], panicked |-> FALSE]
  /\ repl = [up |-> {}, tasks |-> {}, wire |-> {}, returned |-> {}, calls |-> {},
             handlers |-> [h \in 1..MaxHandlers |-> Idle],
             conn |-> [frames |-> <<>>, written |-> 0, open |-> TRUE],
             unacked |-> [n \in Actors |-> [p \in Actors |-> <<>>]]]

VVUpdate(r, actor_id, counter) ==
  /\ vv' = [vv EXCEPT ![r] = VersionVector_update(@, actor_id, counter)]
  /\ UNCHANGED <<db, out, pending, applied, ref, repl>>

VVIncrement(r, actor_id) ==
  /\ VersionVector_get(vv[r], actor_id) < MaxCounter
  /\ vv' = [vv EXCEPT ![r] = VersionVector_increment(@, actor_id)]
  /\ UNCHANGED <<db, out, pending, applied, ref, repl>>

VVMerge ==
  /\ vv' = [vv EXCEPT !.v = VersionVector_merge(vv.v, vv.o)]
  /\ UNCHANGED <<db, out, pending, applied, ref, repl>>

\* The vector is written as text and read back.
VVParse(r) ==
  /\ \E parsed \in VersionVector_from_str(VersionVector_to_string(vv[r])) :
       vv' = [vv EXCEPT ![r] = parsed]
  /\ UNCHANGED <<db, out, pending, applied, ref, repl>>

\* proto.rs: the replication messages.  An Option is a set, {} is None; a
\* repeated field is a sequence; bytes fields are sequences of bytes.

\* ActorId::to_bytes, as dot_to_proto calls it: the four bytes of the id.
ActorId_to_bytes(a) == a.bytes

dot_to_proto(dot) == [actor_id |-> ActorId_to_bytes(dot.actor_id), counter |-> dot.counter]

\* proto_to_dot: an Option.
proto_to_dot(proto) ==
  {[actor_id |-> a, counter |-> proto.counter] : a \in ActorId_from_bytes(proto.actor_id)}

\* version_vector_to_proto: one entry per key of the HashMap (the keys are
\* taken in their order; the HashMap's iteration order is unspecified).
version_vector_to_proto(v) ==
  LET keys == sort_by_key(DOMAIN v)
  IN [entries |-> [i \in 1..Len(keys) |->
                     [actor_id |-> ActorId_to_bytes(keys[i]), counter |-> v[keys[i]]]]]

\* proto_to_version_vector: the loop over entries from the map counters on;
\* an Option, None at the first actor_id that from_bytes rejects.
RECURSIVE proto_to_version_vector(_, _)
proto_to_version_vector(entries, counters) ==
  IF entries = <<>> THEN {counters}
  ELSE LET actor_id == ActorId_from_bytes(Head(entries).actor_id)
       IN IF actor_id = {} THEN {}
          ELSE proto_to_version_vector(
                 Tail(entries),
                 HashMap_insert(counters, CHOOSE a \in actor_id : TRUE, Head(entries).counter))

\* operation_to_proto: context and op_type are always Some.
operation_to_proto(op) ==
  [set_name |-> op.set_name,
   context |-> {version_vector_to_proto(op.context)},
   op_type |-> {[kind |-> op.op_type.kind,
                 elements |-> op.op_type.elements,
                 dot |-> {dot_to_proto(op.op_type.dot)},
                 removed_dots |-> [i \in 1..Len(op.op_type.removed_dots) |->
                                     dot_to_proto(op.op_type.removed_dots[i])]]}]

\* proto_to_operation on a decoded replication::Operation message: an
\* Option, None when context, op_type or dot is missing or does not convert;
\* removed_dots that do not convert are filtered out.
proto_to_operation_msg(proto) ==
  IF proto.context = {} THEN {}
  ELSE LET context == proto_to_version_vector((CHOOSE c \in proto.context : TRUE).entries,
                                              VersionVector_new)
       IN IF context = {} \/ proto.op_type = {} THEN {}
          ELSE LET t == CHOOSE x \in proto.op_type : TRUE
               IN IF t.dot = {} THEN {}
                  ELSE LET dot == proto_to_dot(CHOOSE x \in t.dot : TRUE)
                           some == SelectSeq(t.removed_dots, LAMBDA q : proto_to_dot(q) # {})
                       IN IF dot = {} THEN {}
                          ELSE {[set_name |-> proto.set_name,
                                 op_type |->
                                   [kind |-> t.kind,
                                    elements |-> t.elements,
                                    dot |-> CHOOSE d \in dot : TRUE,
                                    removed_dots |->
                                      [i \in 1..Len(some) |->
                                         CHOOSE d \in proto_to_dot(some[i]) : TRUE]],
                                 context |-> CHOOSE c \in context : TRUE]}

\* The operations handed to the codec with the vector context: adds and
\* removes of no or two elements, with any of the dots, and with a list
\* of removed dots that is empty or holds several dots in either order.
CodecOps(context) ==
  LET all == [i \in 1..3 |-> [actor_id |-> sort_by_key(VVActors)[i], counter |-> i]]
  IN {[set_name |-> "s",
       op_type |-> [kind |-> kind, elements |-> elements, dot |-> dot,
                    removed_dots |-> removed_dots],
       context |-> context] :
        kind \in {"Add", "Remove"}, elements \in {<<>>, <<"y", "x">>},
        dot \in {[actor_id |-> a, counter |-> MaxCounter] : a \in VVActors},
        removed_dots \in {<<>>, <<all[3], all[1]>>, all}}

\* An operation whose context is the vector is sent to a peer and decoded
\* there; the peer takes the context it decoded.
VVCodec(r) ==
  /\ \E op \in CodecOps(vv[r]) :
       \E decoded \in proto_to_operation_msg(operation_to_proto(op)) :
         vv' = [vv EXCEPT ![r] = decoded.context]
  /\ UNCHANGED <<db, out, pending, applied, ref, repl>>

NextVV ==
  \/ \E r \in {"v", "o"}, actor_id \in VVActors, counter \in 0..MaxCounter :
       VVUpdate(r, actor_id, counter)
  \/ \E r \in {"v", "o"}, actor_id \in VVActors : VVIncrement(r, actor_id)
  \/ VVMerge
  \/ \E r \in {"v", "o"} : VVParse(r)
  \/ \E r \in {"v", "o"} : VVCodec(r)

SpecVV == InitVV /\ [][NextVV]_vars

---------------------------------------------------------------------------
(* Properties                                                              *)

Touches(op, x) == \E i \in 1..Len(op.elements) : op.elements[i] = x

Covers(context, dot) == context[dot.actor_id] >= dot.counter

Concurrent(p, q) == ~Covers(p.context, q.dot) /\ ~Covers(q.context, p.dot)

AllApplied(a, b) == \A i \in 1..Len(out[a]) : out[a][i].dot \in Applied(b)

\* C1 (convergence): for two nodes A and B, once every operation produced
\* on A has been applied on B and every operation produced on B has been
\* applied on A, get_elements returns the same set on both.
C1_Convergence ==
  \A a \in Linked, b \in Linked :
    (a # b /\ AllApplied(a, b) /\ AllApplied(b, a))
      => get_elements(db[a]) = get_elements(db[b])

\* The add a of node A and the remove r of node B, both naming x, are
\* concurrent, each has been applied at the other node, and no other
\* operation on x was issued with a's dot in its context.
ConcurrentAddRemove(a, r, x) ==
  /\ a.op_type = "Add" /\ r.op_type = "Remove"
  /\ Touches(a, x) /\ Touches(r, x)
  /\ a.dot.actor_id # r.dot.actor_id
  /\ Concurrent(a, r)
  /\ a.dot \in Applied(r.dot.actor_id)
  /\ r.dot \in Applied(a.dot.actor_id)
  /\ ~ \E o \in Produced : o # a /\ Touches(o, x) /\ Covers(o.context, a.dot)

ObservedRemove(a, r, x) ==
  /\ a.op_type = "Add" /\ r.op_type = "Remove"
  /\ Touches(a, x) /\ Touches(r, x)
  /\ a.dot.actor_id # r.dot.actor_id
  /\ a.dot \in Applied(r.dot.actor_id)
  /\ Covers(r.context, a.dot)
  /\ r.dot \in Applied(a.dot.actor_id)
  /\ \A o \in Produced : Touches(o, x) => o \in {a, r}

\* C3 (observed remove): if N2 has applied N1's add of x and then issues
\* SREM x, the remove operation carries the dots N2 observed on x, and
\* once N1 has applied it (no add of x being concurrent with it) x is
\* absent on both nodes.
C3_ObservedRemove ==
  \A a \in Produced, r \in Produced, x \in Elements :
    ObservedRemove(a, r, x)
      => /\ a.dot \in r.removed_dots
         /\ x \notin get_elements(db[a.dot.actor_id])
         /\ x \notin get_elements(db[r.dot.actor_id])

\* C4 (refinement of the reference model): in the state-machine test of
\* tests/proptest.rs every transition completes and, after it, smembers on
\* every node of the cluster equals the members of that node's reference
\* AddWinsSet.
C4_RefinesAddWinsSet ==
  /\ ~ref.panicked
  /\ \A n \in Actors : smembers(vv[n], db[n], {}) = BytesArray(AddWinsSet_members(ref.nodes[n]))

\* C5 (eventual propagation): with every peer eventually reachable and
\* staying up, every operation a node produced, including one whose first
\* send failed, is eventually applied at every peer.
C5_EventualPropagation ==
  \A n \in Linked, p \in Linked, i \in 1..MaxOps :
    (n # p /\ Len(out[n]) >= i)
      ~> (Len(out[n]) >= i /\ out[n][i].dot \in Applied(p))

\* Peer p has applied every operation node a produced before its j-th and
\* every operation of a third node that a had applied when it produced its
\* j-th (an applied operation whose dot the j-th's context covers), and
\* has not applied the j-th.
CaughtUp(p, a, j) ==
  /\ a # p
  /\ j <= Len(out[a])
  /\ \A i \in 1..(j - 1) : out[a][i].dot \in Applied(p)
  /\ \A d \in Applied(a) :
       (Covers(out[a][j].context, d) /\ d.actor_id # p) => d \in Applied(p)
  /\ out[a][j].dot \notin Applied(p)

\* C6 (context before increment): the context of an operation is the
\* producer's vector before the increment that minted its dot, so a peer
\* that has applied every earlier operation of the producer and every
\* operation the producer had applied descends the context, and
\* apply_remote_operation returns Applied = true there.
C6_ContextBeforeIncrement ==
  \A a \in Linked, p \in Linked, j \in 1..MaxOps :
    CaughtUp(p, a, j)
      => /\ descends(vv[p], out[a][j].context)
         /\ apply_remote_operation(vv[p], db[p], out[a][j]).result = "applied"

\* Scenario S6 at node n: op1 and op2 are the first two operations of
\* another node, adds of different elements; n has applied neither and
\* can apply op1.
S6(n, op1, op2) ==
  /\ op1.dot \notin Applied(n) /\ op2.dot \notin Applied(n)
  /\ op1.op_type = "Add" /\ op2.op_type = "Add"
  /\ op1.dot.actor_id = op2.dot.actor_id
  /\ op1.dot.actor_id # n
  /\ op1.dot.counter = 1 /\ op2.dot.counter = 2
  /\ op2.context = increment(op1.context, op1.dot.actor_id)
  /\ descends(vv[n], op1.context)
  /\ \A x \in Elements : ~(Touches(op1, x) /\ Touches(op2, x))

C9_IdempotentApply ==
  \A n \in Linked, op \in Produced :
    op.dot \in Applied(n)
      => LET r == apply_remote_operation(vv[n], db[n], op)
         IN r.result = "applied" /\ r.vv = vv[n] /\ r.db = db[n]

\* C10 (invariant I1): for every row of dots the version_vector table has
\* a row for the dot's actor with a counter at least the dot's counter.
C10_DotsCoveredByVersionVector ==
  \A n \in Actors : \A row \in db[n].dots :
    db[n].version_vector[row.actor_id] >= row.counter

\* A node stores a dot of its own and a dot minted by a peer.
C10_Witness ==
  \E n \in Linked : \E own \in db[n].dots, other \in db[n].dots :
    own.actor_id = n /\ other.actor_id # n

\* Element row e of store d has at least one dot row.
Supported(d, e) == DotsOn(d, e) # {}

\* Every element row of store d is referenced by at least one dot row.
I2(d) == \A e \in d.elements : Supported(d, e)

\* C11 (invariant I2): at every committed transaction boundary every
\* element row is referenced by at least one dot row; a local remove, a
\* remote remove and a remote add each commit a state in which an element
\* that lost its last dot has no element row.
C11_ElementsHaveDots ==
  /\ \A n \in Actors : I2(db[n])
  /\ \A elements \in StoreLists, dot \in StoreDots :
       /\ I2(remove_elements(db[StoreNode], elements, dot).db)
       /\ \A removed_dots \in SUBSET StoreDots :
            /\ I2(replicate_remove(db[StoreNode], elements, removed_dots, dot).db)
            /\ I2(replicate_add(db[StoreNode], elements, removed_dots, dot).db)

\* x is supported by a dot of each of two actors; a remote remove naming
\* both dots commits a store without x's element row, and one naming a
\* single dot commits a store that keeps the row and the other dot.
C11_Witness ==
  LET d == db[StoreNode]
      on == {RowDot(r) : r \in DotsOn(d, "x")}
  IN /\ "x" \in d.elements /\ Cardinality(on) = 2
     /\ \E dot \in StoreDots :
          /\ "x" \notin replicate_remove(d, <<"x">>, on, dot).db.elements
          /\ \E one \in on :
               LET after == replicate_remove(d, <<"x">>, {one}, dot).db
               IN "x" \in after.elements /\ Cardinality(DotsOn(after, "x")) = 1

\* No two dot rows of store d share (element, actor_id).
I3(d) ==
  \A r1 \in d.dots, r2 \in d.dots :
    (r1.element = r2.element /\ r1.actor_id = r2.actor_id) => r1 = r2

\* The dot rows of actor a on element e in store d.
DotsOf(d, e, a) == {r \in DotsOn(d, e) : r.actor_id = a}

\* C12 (invariant I3): at every committed transaction boundary there is at
\* most one dot row per (element, actor), and after add_elements the only
\* dot row of the adding actor on each added element is the new dot.
C12_OneDotPerElementActor ==
  /\ \A n \in Actors : I3(db[n])
  /\ \A elements \in StoreLists, dot \in StoreDots :
       LET r == add_elements(db[StoreNode], elements, dot)
       IN /\ I3(r.db)
          /\ \A i \in 1..Len(elements) :
               DotsOf(r.db, elements[i], dot.actor_id) = {DotRow(elements[i], dot)}

\* An element is supported by a dot of an actor, and that actor's add of it
\* with another counter commits a store holding the new dot only.
C12_Witness ==
  LET d == db[StoreNode]
  IN \E e \in d.elements, dot \in StoreDots :
       /\ \E r \in DotsOf(d, e, dot.actor_id) : r.counter # dot.counter
       /\ DotsOf(add_elements(d, <<e>>, dot).db, e, dot.actor_id) = {DotRow(e, dot)}

\* Vector w holds, for every actor, a counter at least that of vector v.
NotLowered(v, w) == \A a \in Actors : v[a] <= w[a]

\* C13 (invariant I4): no step of a node (a sadd, an srem, or a received
\* operation with the drain of the pending buffer that follows it, each
\* with its storage transactions) lowers a counter of the node's in-memory
\* version vector or of its persisted version_vector table.
C13_VersionVectorMonotonic ==
  [][\A n \in Actors :
       /\ NotLowered(vv[n], vv'[n])
       /\ NotLowered(load_vv(db[n]), load_vv(db'[n]))]_vars

\* A node that has applied the second operation of a peer is handed the
\* peer's first operation again: the vector keeps the peer's counter, and
\* a local write raises the node's own.
C13_Witness ==
  \E n \in Linked, op \in Produced :
    /\ op.dot.actor_id # n
    /\ op.dot.counter < vv[n][op.dot.actor_id]
    /\ op.dot.counter < load_vv(db[n])[op.dot.actor_id]
    /\ descends(vv[n], op.context)
    /\ apply_remote_operation(vv[n], db[n], op).vv = vv[n]
    /\ vv[n][n] > 0
    /\ sadd(vv[n], db[n], n, <<"x">>).vv[n] = vv[n][n] + 1

\* C14 (VV never leads storage): between calls, for every actor the
\* counter of a node's in-memory version vector is at most the counter of
\* the node's persisted version_vector table.
C14_VVNeverLeadsStorage ==
  \A n \in Actors : NotLowered(vv[n], load_vv(db[n]))

\* C15 (a dot names one update event): the operations a node produced
\* carry strictly increasing counters of the node's actor, in the order of
\* the calls, also when the process restarted between two calls.
C15_DotsNameOneEvent ==
  \A n \in Linked : \A i \in 1..Len(out[n]), j \in 1..Len(out[n]) :
    i < j => /\ out[n][i].dot.actor_id = n
             /\ out[n][j].dot.actor_id = n
             /\ out[n][i].dot.counter < out[n][j].dot.counter

\* apply_remote_operation of a peer's operation whose storage transaction
\* fails leaves the in-memory vector and the tables of node n as they were.
FailedApplyRestores(n) ==
  \A op \in Produced :
    op.dot.actor_id # n =>
      LET r == apply_remote_operation(vv[n], db[n], op)
      IN r.result = "error" => (r.vv = vv[n] /\ r.db = db[n])

\* C16 (failed storage transaction): when the storage transaction of sadd,
\* srem or apply_remote_operation fails, the in-memory version vector and
\* the tables are the same as before the call.
C16_FailedWriteLeavesVV ==
  \A n \in Linked :
    /\ sadd_storage_err(vv[n], db[n], n) = [vv |-> vv[n], db |-> db[n]]
    /\ srem_storage_err(vv[n], db[n], n) = [vv |-> vv[n], db |-> db[n]]
    /\ FailedApplyRestores(n)

\* C17 (result of sadd): a successful sadd returns the vector after the
\* write and an Add operation whose elements are the members, whose dot is
\* (self, vv[self]) and whose removed_dots are the dots the add displaced
\* in the node's store.
C17_SaddReturnsOperation ==
  \A n \in Linked, members \in MemberLists :
    LET r == sadd(vv[n], db[n], n, members)
    IN /\ r.vv = increment(vv[n], n)
       /\ r.op.op_type = "Add"
       /\ r.op.elements = members
       /\ r.op.dot = Dot(n, r.vv[n])
       /\ r.op.context = vv[n]
       /\ r.op.removed_dots = storage_add(db[n], members, r.op.dot).deleted

\* Every element of the list is a member in store d.
AllMembers(d, elements) ==
  \A i \in 1..Len(elements) :
    elements[i] \in get_elements(d) /\ is_member(d, elements[i])

\* C18 (local add): after a successful add_elements with any dot, and
\* after a successful sadd, every added element is a member of the set on
\* that replica, whatever dots it carried before the call.
C18_AddedElementIsMember ==
  /\ \A elements \in StoreLists, dot \in StoreDots :
       LET r == add_elements(db[StoreNode], elements, dot)
       IN r.ok => AllMembers(r.db, elements)
  /\ \A n \in Linked, members \in MemberLists :
       AllMembers(sadd(vv[n], db[n], n, members).db, members)

\* x is supported by a dot of each of two actors and y is absent; one add
\* of both makes both members, each supported by the new dot alone.
C18_Witness ==
  LET d == db[StoreNode]
  IN /\ Cardinality(DotsOn(d, "x")) = 2
     /\ ~is_member(d, "y")
     /\ \E dot \in StoreDots :
          LET after == add_elements(d, <<"x", "y">>, dot).db
          IN /\ AllMembers(after, <<"x", "y">>)
             /\ DotsOn(after, "x") = {DotRow("x", dot)}
             /\ DotsOn(after, "y") = {DotRow("y", dot)}

\* The elements of a member list, as a set.
Listed(elements) == {elements[i] : i \in 1..Len(elements)}

\* In store after, no listed element is a member and the other members
\* are those of store before.
RemovedFrom(before, after, elements) ==
  /\ get_elements(after) = get_elements(before) \ Listed(elements)
  /\ \A e \in Listed(elements) : ~is_member(after, e)

\* C19 (local remove): after a successful remove_elements, and after a
\* successful srem, no removed element is a member of the set on that
\* replica, however many dots of however many actors supported it, and
\* the other members are unchanged.
C19_RemovedElementIsNotMember ==
  /\ \A elements \in StoreLists, dot \in StoreDots :
       LET r == remove_elements(db[StoreNode], elements, dot)
       IN r.ok => RemovedFrom(db[StoreNode], r.db, elements)
  /\ \A n \in Linked, members \in MemberLists :
       RemovedFrom(db[n], srem(vv[n], db[n], n, members).db, members)

\* x is supported by a dot of each of two actors and y is a member; the
\* remove of x leaves y, with its dots, as the only member.
C19_Witness ==
  LET d == db[StoreNode]
  IN /\ Cardinality(DotsOn(d, "x")) = 2
     /\ is_member(d, "x") /\ is_member(d, "y")
     /\ \E dot \in StoreDots :
          LET after == remove_elements(d, <<"x">>, dot).db
          IN /\ get_elements(after) = {"y"}
             /\ DotsOn(after, "x") = {}
             /\ DotsOn(after, "y") = DotsOn(d, "y")

\* C20 (no-op remove): an srem whose members are all absent from the set,
\* or whose set does not exist, displaces no dots, returns no replication
\* operation, creates no set or element row and leaves every element and
\* dot row unchanged.
C20_NoOpRemove ==
  \A n \in Linked, members \in MemberLists :
    (\A e \in Listed(members) : ~is_member(db[n], e))
      => LET r == srem(vv[n], db[n], n, members)
         IN /\ storage_remove(db[n], members, r.op.dot).deleted = {}
            /\ r.db.sets = db[n].sets
            /\ r.db.elements = db[n].elements
            /\ r.db.dots = db[n].dots
            /\ r.op = NoOperation

\* The part of C20 about the rows: the no-op remove displaces no dots and
\* leaves the set, element and dot rows as they were.
C20_RowsUntouched ==
  \A n \in Linked, members \in MemberLists :
    (\A e \in Listed(members) : ~is_member(db[n], e))
      => LET r == srem(vv[n], db[n], n, members)
         IN /\ storage_remove(db[n], members, r.op.dot).deleted = {}
            /\ r.db.sets = db[n].sets
            /\ r.db.elements = db[n].elements
            /\ r.db.dots = db[n].dots


\* C21 (as stated): every read, smismember with any member list included,
\* returns NotReady(local_vv) exactly when the caller supplied a client_vv
\* that the node's version vector does not descend.
ClientVVs == {{}} \cup {{vv[m]} : m \in Actors}

ReadLists == StoreLists \cup {<<>>}

Refused(n, client_vv) == client_vv # {} /\ \E cv \in client_vv : ~descends(vv[n], cv)

C21_ReadsNotReadyIff ==
  \A n \in Linked : \A client_vv \in ClientVVs :
    /\ scard(vv[n], db[n], client_vv) = NotReady(vv[n]) <=> Refused(n, client_vv)
    /\ smembers(vv[n], db[n], client_vv) = NotReady(vv[n]) <=> Refused(n, client_vv)
    /\ \A e \in Elements :
         sismember(vv[n], db[n], e, client_vv) = NotReady(vv[n]) <=> Refused(n, client_vv)
    /\ \A members \in ReadLists :
         smismember(vv[n], db[n], members, client_vv) = NotReady(vv[n])
           <=> Refused(n, client_vv)

\* C21 (amended): a read whose arguments are valid (smismember with at least
\* one member) returns NotReady(local_vv) exactly when the caller supplied a
\* client_vv that the node's version vector does not descend, and otherwise
\* the storage result; a read with no client_vv is never NotReady; smismember
\* with an empty member list returns the argument error whatever the
\* client_vv.
C21_ValidReadsNotReadyIff ==
  \A n \in Linked : \A client_vv \in ClientVVs :
    /\ scard(vv[n], db[n], client_vv) =
         IF Refused(n, client_vv) THEN NotReady(vv[n])
         ELSE Integer(count_elements(db[n]))
    /\ smembers(vv[n], db[n], client_vv) =
         IF Refused(n, client_vv) THEN NotReady(vv[n])
         ELSE BytesArray(get_elements(db[n]))
    /\ \A e \in Elements :
         sismember(vv[n], db[n], e, client_vv) =
           IF Refused(n, client_vv) THEN NotReady(vv[n])
           ELSE Integer(IF is_member(db[n], e) THEN 1 ELSE 0)
    /\ \A members \in StoreLists :
         smismember(vv[n], db[n], members, client_vv) =
           IF Refused(n, client_vv) THEN NotReady(vv[n])
           ELSE BoolArray(are_members(db[n], members))
    /\ smismember(vv[n], db[n], <<>>, client_vv) = Error
    /\ scard(vv[n], db[n], {}).kind # "NotReady"
    /\ smembers(vv[n], db[n], {}).kind # "NotReady"

\* A node holding an element is asked to read at a version vector it has not
\* reached and refuses, and at one it has reached and answers from storage.
C21_Witness ==
  \E n \in Linked : \E m, k \in Actors :
    /\ ~descends(vv[n], vv[m])
    /\ scard(vv[n], db[n], {vv[m]}) = NotReady(vv[n])
    /\ vv[k] # VVnew /\ descends(vv[n], vv[k])
    /\ scard(vv[n], db[n], {vv[k]}) = Integer(1)
    /\ smismember(vv[n], db[n], <<"x", "y">>, {vv[k]}) \in
         {BoolArray(<<TRUE, FALSE>>), BoolArray(<<FALSE, TRUE>>)}


\* C22: sadd or srem called with an empty member list returns the
\* invalid-arguments error and no operation, and leaves the node's version
\* vector and storage as they were.
Rejected(r, n) ==
  /\ r.result = Error
  /\ r.op = NoOperation
  /\ r.vv = vv[n]
  /\ r.db = db[n]

C22_EmptyMembersRejected ==
  \A n \in Linked :
    /\ Rejected(sadd(vv[n], db[n], n, <<>>), n)
    /\ Rejected(srem(vv[n], db[n], n, <<>>), n)

\* A node that has minted a dot and holds an element rejects both writes, and
\* the same writes with one member are carried out.
C22_Witness ==
  \E n \in Linked :
    /\ vv[n][n] > 0
    /\ get_elements(db[n]) # {}
    /\ Rejected(sadd(vv[n], db[n], n, <<>>), n)
    /\ Rejected(srem(vv[n], db[n], n, <<>>), n)
    /\ sadd(vv[n], db[n], n, <<"x">>).result = Ok(increment(vv[n], n))
    /\ srem(vv[n], db[n], n, <<"x">>).vv # vv[n]


\* C23: a pending buffer never holds more than PendingCapacity operations;
\* add on a full buffer returns false and leaves the contents as they were,
\* and add on a buffer with room appends the operation at the end and
\* returns true.
C23_PendingBufferBounded ==
  \A n \in Actors :
    /\ Len(pending[n]) <= PendingCapacity
    /\ \A op \in Produced :
         IF Len(pending[n]) = PendingCapacity
         THEN /\ PendingAdd(pending[n], op) = pending[n]
              /\ ~PendingAddReturns(pending[n], op)
         ELSE /\ PendingAdd(pending[n], op) = Append(pending[n], op)
              /\ PendingAddReturns(pending[n], op)

\* A node whose buffer is full is handed one more operation that it cannot
\* apply yet, and its endpoint leaves the buffer as it was.
C23_Witness ==
  \E n \in Actors : \E op \in Produced :
    /\ Len(pending[n]) = PendingCapacity
    /\ apply_remote_operation(vv[n], db[n], op).result = "gap"
    /\ handle_connection(Node(n), op).pending = pending[n]


\* C24: ReplicationManager.send attempts every configured peer even when an
\* earlier attempt failed; an attempt that fails appends the operation to
\* that peer's unacked buffer with retry count 0, an attempt that succeeds
\* adds nothing to any unacked buffer, and send only ever returns Ok.
Attempted(t) ==
  LET p == Head(t.peers)
  IN /\ Tail(t.peers) # <<>> => [t EXCEPT !.peers = Tail(@)] \in repl'.tasks
     /\ IF p \in repl.up
        THEN /\ repl'.unacked = repl.unacked
             /\ [to |-> p, op |-> t.op] \in repl'.wire
        ELSE /\ repl'.unacked =
                  [repl.unacked EXCEPT ![t.from][p] =
                     Append(@, [op |-> t.op, retry_count |-> 0])]
             /\ repl'.wire = repl.wire

C24_SendAttemptsEveryPeer ==
  [][/\ \A t \in repl.tasks : t \notin repl'.tasks => Attempted(t)
     /\ \A r \in repl'.returned : r.result = "Ok"]_vars

\* A send whose first peer was unreachable has gone on to its second peer,
\* which took the operation, and has returned.
C24_Witness ==
  \E r \in repl.returned :
    LET ps == mesh_peers(r.from)
    IN /\ Len(ps) = 2
       /\ repl.unacked[r.from][ps[1]] = <<[op |-> r.op, retry_count |-> 0]>>
       /\ repl.unacked[r.from][ps[2]] = <<>>
       /\ [to |-> ps[2], op |-> r.op] \in repl.wire


\* C25: the operations of one node's sequential writes go onto the wire to
\* each peer in commit order: no operation is on the wire to a peer while
\* the send task of an earlier operation of the same node has yet to make
\* its attempt at that peer.
C25_WireInCommitOrder ==
  \A m \in repl.wire : \A t \in repl.tasks :
    (t.from = m.op.dot.actor_id /\ t.op.dot.counter < m.op.dot.counter)
      => \A i \in 1..Len(t.peers) : t.peers[i] # m.to


\* C26: a message that fails to decode is dropped and the connection stays
\* open, so that the well-formed messages behind it are still read: the
\* connection never stops while an operation written on it is unread.
C26_ConnectionStaysOpen ==
  (\E i \in 1..Len(repl.conn.frames) : repl.conn.frames[i].body = "operation")
    => repl.conn.open

\* C26 (messages without their fields): a protobuf message that decodes but
\* lacks a required field is skipped and the connection stays open.
C26_UnfilledIsSkipped ==
  [][(repl.conn.open /\ repl.conn.frames # <<>> /\ Head(repl.conn.frames) = Unfilled
      /\ repl'.conn.frames # repl.conn.frames /\ repl'.conn.written = repl.conn.written)
     => (repl'.conn.open /\ repl'.conn.frames = Tail(repl.conn.frames)
         /\ vv' = vv /\ db' = db /\ pending' = pending)]_vars


\* C27: VersionVector.update and merge are idempotent and monotonic: a second
\* update(a, c) or merge(o) changes nothing, neither lowers the counter of
\* any actor, and after v.merge(o) the counter of every actor is the larger
\* of its counters in the old v and in o.
C27_UpdateMergeIdempotentMonotonic ==
  LET v == vv.v
      o == vv.o
      m == VersionVector_merge(v, o)
  IN /\ \A a \in VVActors : \A c \in 0..MaxCounter :
          LET u == VersionVector_update(v, a, c)
          IN /\ VersionVector_update(u, a, c) = u
             /\ \A b \in VVActors : VersionVector_get(u, b) >= VersionVector_get(v, b)
             /\ VersionVector_get(u, a) >= c
     /\ VersionVector_merge(m, o) = m
     /\ \A b \in VVActors :
          VersionVector_get(m, b) = Max(VersionVector_get(v, b), VersionVector_get(o, b))

\* v is ahead of o for one actor and behind it for another, o holds an
\* actor v lacks, and the merge has raised v to the larger counters.
C27_Witness ==
  \E a, b, c \in VVActors :
    /\ a \in DOMAIN vv.v /\ a \in DOMAIN vv.o /\ vv.v[a] > vv.o[a] /\ vv.o[a] > 0
    /\ b \in DOMAIN vv.v /\ b \in DOMAIN vv.o /\ vv.v[b] < vv.o[b]
    /\ c \notin DOMAIN vv.v /\ c \in DOMAIN vv.o /\ vv.o[c] > 0
    /\ VersionVector_merge(vv.v, vv.o) =
         [x \in VVActors |-> IF x = a THEN vv.v[a] ELSE vv.o[x]]
    /\ VersionVector_update(vv.v, a, vv.o[a]) = vv.v


\* C28 (as stated): v.descends(o) is true exactly when v.get(a) >= c for
\* every entry (a, c) of o, every vector descends itself, and two vectors
\* that each hold an actor the other lacks descend neither way.
DescendsByEntries(v, o) ==
  VersionVector_descends(v, o)
    <=> \A a \in VVActors : a \in DOMAIN o => VersionVector_get(v, a) >= o[a]

C28_DescendsExactly ==
  /\ DescendsByEntries(vv.v, vv.o)
  /\ DescendsByEntries(vv.o, vv.v)
  /\ VersionVector_descends(vv.v, vv.v)
  /\ VersionVector_descends(vv.o, vv.o)
  /\ ((DOMAIN vv.v \ DOMAIN vv.o # {}) /\ (DOMAIN vv.o \ DOMAIN vv.v # {}))
       => (~VersionVector_descends(vv.v, vv.o) /\ ~VersionVector_descends(vv.o, vv.v))

\* C28 (amended): v.descends(o) is true exactly when v.get(a) >= c for every
\* entry (a, c) of o, every vector descends itself, and two vectors that
\* each hold, with a counter above 0, an actor the other lacks descend
\* neither way.
C28_DescendsExactlyNonZero ==
  /\ DescendsByEntries(vv.v, vv.o)
  /\ DescendsByEntries(vv.o, vv.v)
  /\ VersionVector_descends(vv.v, vv.v)
  /\ VersionVector_descends(vv.o, vv.o)
  /\ ((\E a \in DOMAIN vv.v \ DOMAIN vv.o : vv.v[a] > 0)
      /\ (\E a \in DOMAIN vv.o \ DOMAIN vv.v : vv.o[a] > 0))
       => (~VersionVector_descends(vv.v, vv.o) /\ ~VersionVector_descends(vv.o, vv.v))

\* v and o each hold an actor the other lacks and share a third on which v
\* is ahead: neither descends the other, and v descends o once the actor it
\* lacked is merged in.
C28_Witness ==
  \E a, b, c \in VVActors :
    /\ DOMAIN vv.v = {a, c} /\ DOMAIN vv.o = {b, c}
    /\ a # b /\ vv.v[a] > 0 /\ vv.o[b] > 0 /\ vv.v[c] > vv.o[c]
    /\ ~VersionVector_descends(vv.v, vv.o)
    /\ ~VersionVector_descends(vv.o, vv.v)
    /\ VersionVector_descends(VersionVector_update(vv.v, b, vv.o[b]), vv.o)


\* C29: parsing the text written for a version vector gives back an equal
\* vector, the text lists the entries in actor byte order and is empty for
\* the empty vector, and from_bytes(bytes(a)) gives back the actor a.
WrittenInByteOrder(v) ==
  LET pairs == split(VersionVector_to_string(v), ",")
  IN \A i \in 1..(Len(pairs) - 1) :
       \E p \in parse_pair(pairs[i]), q \in parse_pair(pairs[i + 1]) : ActorId_lt(p[1], q[1])

RoundTrip(v) ==
  /\ VersionVector_from_str(VersionVector_to_string(v)) = {v}
  /\ WrittenInByteOrder(v)
  /\ (v = VersionVector_new) <=> (VersionVector_to_string(v) = <<>>)

ActorIdSamples ==
  VVActors \cup {[bytes |-> <<b1, b2, b3, b4>>] : b1, b2, b3, b4 \in {0, U8_MAX}}

C29_RoundTrip ==
  /\ RoundTrip(vv.v)
  /\ RoundTrip(vv.o)
  /\ \A a \in ActorIdSamples :
       /\ ActorId_from_bytes(ActorId_bytes(a)) = {a}
       /\ ActorId_from_str(ActorId_fmt(a)) = {a}

\* A vector of three entries, one of them 0, whose text was parsed back.
C29_Witness ==
  /\ DOMAIN vv.v = VVActors
  /\ \E a \in VVActors : vv.v[a] = 0
  /\ \E a \in VVActors : vv.v[a] = MaxCounter
  /\ Len(split(VersionVector_to_string(vv.v), ",")) = 3
  /\ VersionVector_from_str(VersionVector_to_string(vv.v)) = {vv.v}
  /\ ActorId_fmt(ActorId_new_with_version(0, 300, 2)) = <<"v", "0", ":", "3", "0", "0", ":", "2">>


\* C30: under any interleaving of the writers of a node, the context of
\* each operation the node produces is the node's version vector just
\* before the operation's dot was minted, so that context[self] is
\* dot.counter - 1.
C30_ContextIsVVBeforeMint ==
  [][\A n \in Actors :
       Len(out'[n]) > Len(out[n]) =>
         LET op == out'[n][Len(out'[n])]
         IN /\ op.context = vv[n]
            /\ op.context[n] = op.dot.counter - 1]_vars


\* C31: with concurrent connection handlers on a node, an operation leaves
\* the pending buffer only after that operation was applied.
InBuffer(buf) == {buf[k] : k \in 1..Len(buf)}

C31_RemovedOnlyAfterApplied ==
  [][\A op \in InBuffer(pending[ConnNode]) \ InBuffer(pending'[ConnNode]) :
       op.dot \in Applied(ConnNode)]_vars


\* C32: whenever every connection handler of a node is idle, no operation
\* in its pending buffer is applicable: the node's version vector descends
\* the context of none of them.
C32_IdleBufferHoldsOnlyGaps ==
  (\A h \in 1..MaxHandlers : repl.handlers[h].pc = "idle")
    => \A op \in InBuffer(pending[ConnNode]) : ~descends(vv[ConnNode], op.context)

\* The node as handle_connection leaves it between the direct apply of op and
\* the call of try_apply_buffered.
BeforeDrain(n, op) ==
  LET r == apply_remote_operation(vv[n], db[n], op)
  IN [Node(n) EXCEPT !.vv = r.vv, !.db = r.db, !.applied = @ \cup {Via(op, "direct")}]

\* The operations that reach try_apply_buffered at node n.
Drains(n) ==
  {op \in Produced : /\ op.dot.actor_id # n
                     /\ apply_remote_operation(vv[n], db[n], op).result = "applied"}

\* sub is buf with some positions taken out, the others in their order.
RECURSIVE IsSubSeq(_, _)
IsSubSeq(sub, buf) ==
  IF sub = <<>> THEN TRUE
  ELSE IF buf = <<>> THEN FALSE
  ELSE IF Head(sub) = Head(buf) THEN IsSubSeq(Tail(sub), Tail(buf))
  ELSE IsSubSeq(sub, Tail(buf))

\* C33, the parts about what was removed: when try_apply_buffered returns
\* with no other handler running, every operation it removed from the buffer
\* was applied, the operations left keep their insertion order, and the
\* count it returns is the number of operations removed.
C33_DrainRemovesApplied ==
  \A n \in Linked : \A op \in Drains(n) :
    LET before == BeforeDrain(n, op)
        r == try_apply_buffered(before, 0)
    IN /\ \A o \in InBuffer(before.pending) \ InBuffer(r.node.pending) :
            Via(o, "buffer") \in r.node.applied
       /\ IsSubSeq(r.node.pending, before.pending)
       /\ r.total_applied = Len(before.pending) - Len(r.node.pending)

\* C33 (drain to a fixed point): when try_apply_buffered returns with no
\* other handler running, every removed operation was applied, the remaining
\* ones keep their order, the count returned is the number removed, and no
\* remaining operation is applicable to the node's version vector.
C33_DrainFixpoint ==
  /\ C33_DrainRemovesApplied
  /\ \A n \in Linked : \A op \in Drains(n) :
       LET r == try_apply_buffered(BeforeDrain(n, op), 0)
       IN \A o \in InBuffer(r.node.pending) : ~descends(r.node.vv, o.context)

\* C34 (termination of the drain): with no concurrent adds, every pass of
\* try_apply_buffered but the last removes an operation, so a buffer of n
\* operations is drained in at most n + 1 passes.
C34_DrainPassesBounded ==
  \A n \in Linked : \A op \in Drains(n) :
    LET before == BeforeDrain(n, op)
        r == try_apply_buffered(before, 0)
    IN /\ r.passes <= Len(before.pending) + 1
       /\ r.passes <= r.total_applied + 1

\* A drain of two buffered operations that takes all three passes.
C34_Witness ==
  \E n \in Linked : \E op \in Drains(n) :
    LET before == BeforeDrain(n, op)
        r == try_apply_buffered(before, 0)
    IN Len(before.pending) = 2 /\ r.passes = 3 /\ r.node.pending = <<>>

\* The dots of the dot rows that store d holds on the listed elements.
DotsOnListed(d, elements) ==
  {RowDot(r) : r \in {q \in d.dots : q.element \in Listed(elements)}}

\* Some element appears more than once in the list.
Repeats(elements) == Cardinality(Listed(elements)) < Len(elements)

\* In store after, every listed element carries the dot row of dot alone and
\* the other elements carry the dot rows they carry in store before.
JoinedBy(before, after, elements, dot) ==
  \A e \in Elements :
    DotsOn(after, e) = IF e \in Listed(elements) THEN {DotRow(e, dot)}
                       ELSE DotsOn(before, e)

\* C35 as stated (local add join): add_elements leaves on each listed
\* element exactly one dot row, the new dot, leaves the dots of the other
\* elements unchanged, and returns as displaced dots exactly the dot rows
\* that were on the listed elements before the call.
C35_AddJoinsExactly ==
  \A elements \in StoreLists, dot \in StoreDots :
    LET d == db[StoreNode]
        r == add_elements(d, elements, dot)
    IN /\ r.ok
       /\ JoinedBy(d, r.db, elements, dot)
       /\ r.deleted = DotsOnListed(d, elements)

\* C35 amended: add_elements leaves on each listed element exactly one dot
\* row, the new dot, leaves the dots of the other elements unchanged, and
\* returns as displaced dots the dot rows that were on the listed elements
\* before the call, and the new dot as well when an element is listed more
\* than once (its second visit deletes the row its first visit inserted).
C35_AddJoinsOrRepeats ==
  \A elements \in StoreLists, dot \in StoreDots :
    LET d == db[StoreNode]
        r == add_elements(d, elements, dot)
    IN /\ r.ok
       /\ JoinedBy(d, r.db, elements, dot)
       /\ r.deleted = DotsOnListed(d, elements)
                        \cup (IF Repeats(elements) THEN {dot} ELSE {})

\* x carries a dot of each of two actors and y carries a dot; the add of x
\* listed twice with a dot not in the store displaces both dots of x and
\* the new dot, leaves the new dot alone on x, and leaves y's dot.
C35_Witness ==
  LET d == db[StoreNode]
  IN /\ Cardinality(DotsOn(d, "x")) = 2 /\ DotsOn(d, "y") # {}
     /\ \E dot \in StoreDots :
          LET r == add_elements(d, <<"x", "x">>, dot)
          IN /\ dot \notin DotsOnListed(d, <<"x">>)
             /\ r.deleted = DotsOnListed(d, <<"x">>) \cup {dot}
             /\ DotsOn(r.db, "x") = {DotRow("x", dot)}
             /\ DotsOn(r.db, "y") = DotsOn(d, "y")

\* In store after, every listed element carries the dot rows it carries in
\* store before less those named in removed_dots, and the row of dot; the
\* other elements carry the dot rows they carry in store before.
ReplicatedAdd(before, after, elements, removed_dots, dot) ==
  \A e \in Elements :
    DotsOn(after, e) =
      IF e \in Listed(elements)
      THEN (DotsOn(before, e) \ Tombstoned(before, e, removed_dots)) \cup {DotRow(e, dot)}
      ELSE DotsOn(before, e)

\* C36 (remote add): replicate_add, called by apply_remote_operation for an
\* add of a peer whose context the node's version vector descends and
\* whose dot the node has not seen, leaves on each listed element its previous dots minus those in removed_dots,
\* plus the incoming dot; dots not named in removed_dots survive and the
\* elements not listed are unchanged.
C36_ReplicateAddJoins ==
  \A n \in Linked : \A op \in Produced :
    (/\ op.op_type = "Add" /\ op.dot.actor_id # n
     /\ descends(vv[n], op.context)
     /\ op.dot.counter > VVget(vv[n], op.dot.actor_id))
      => ReplicatedAdd(db[n],
                       replicate_add(db[n], op.elements, op.removed_dots, op.dot).db,
                       op.elements, op.removed_dots, op.dot)

\* C36, the calls that commit: a replicate_add that returns Ok leaves the
\* dot rows as stated, for any store, list, removed_dots and dot; one that
\* returns Err leaves the store as it was, and then some listed element
\* holds a dot row of the incoming dot's actor that removed_dots does not
\* name, or is listed twice.
C36_CommittedReplicateAdd ==
  \A elements \in StoreLists, removed_dots \in SUBSET StoreDots, dot \in StoreDots :
    LET d == db[StoreNode]
        r == replicate_add(d, elements, removed_dots, dot)
    IN IF r.ok THEN ReplicatedAdd(d, r.db, elements, removed_dots, dot)
       ELSE /\ r.db = d
            /\ \/ Repeats(elements) /\ dot \notin removed_dots
               \/ \E e \in Listed(elements) :
                    \E q \in DotsOn(d, e) \ Tombstoned(d, e, removed_dots) :
                      q.actor_id = dot.actor_id

\* In store after, the listed elements that have a row in store before lost
\* the dot rows named in removed_dots and nothing else, and lost their row
\* exactly when no dot row is left; the other elements and their dot rows
\* are those of store before.
ReplicatedRemove(before, after, elements, removed_dots) ==
  \A e \in Elements :
    IF e \in Listed(elements) /\ e \in before.elements
    THEN /\ DotsOn(after, e) = DotsOn(before, e) \ Tombstoned(before, e, removed_dots)
         /\ (e \notin after.elements) <=> (DotsOn(after, e) = {})
    ELSE /\ DotsOn(after, e) = DotsOn(before, e)
         /\ (e \in after.elements) <=> (e \in before.elements)

\* C37 (remote remove, frame): replicate_remove deletes from each listed
\* element only the dots in removed_dots, deletes the element row if and
\* only if no dot remains on it, skips without error the listed elements
\* that have no row, and leaves all other elements and their dots as they
\* were; it creates no set row.
C37_ReplicateRemoveFrame ==
  \A elements \in StoreLists, removed_dots \in SUBSET StoreDots, dot \in StoreDots :
    LET d == db[StoreNode]
        r == replicate_remove(d, elements, removed_dots, dot)
    IN /\ r.ok
       /\ r.db.sets = d.sets
       /\ ReplicatedRemove(d, r.db, elements, removed_dots)

\* x carries a dot of each of two actors and y carries a dot; a remote
\* remove of x and y naming one dot of x keeps x with its other dot, and
\* takes y's row away exactly when the named dot was y's only dot.
C37_Witness ==
  LET d == db[StoreNode]
  IN /\ Cardinality(DotsOn(d, "x")) = 2 /\ Cardinality(DotsOn(d, "y")) = 1
     /\ \E one \in DotsOn(d, "x"), dot \in StoreDots :
          LET r == replicate_remove(d, <<"x", "y">>, {RowDot(one)}, dot)
          IN /\ DotsOn(r.db, "x") = DotsOn(d, "x") \ {one}
             /\ "x" \in r.db.elements
             /\ ("y" \notin r.db.elements) <=> (RowDot(one) \in DotsOnListed(d, <<"y">>))
             /\ "y" \notin replicate_remove(d, <<"y">>, DotsOnListed(d, <<"y">>), dot).db.elements

\* apply_remote_operation's checks as the spec states them: the node's
\* vector v descends the context of op and has not seen op's dot.
PassesChecks(v, op) ==
  descends(v, op.context) /\ op.dot.counter > VVget(v, op.dot.actor_id)

\* The adds node m can receive from a peer: those the peers have produced
\* and those a peer's sadd would produce now, for any member list, a list
\* naming an element twice included.
PeerAdds(m) ==
  {op \in Produced : op.op_type = "Add" /\ op.dot.actor_id # m}
    \cup {sadd(vv[n], db[n], n, members).op :
            n \in Linked \ {m}, members \in StoreLists}

\* C39 (no constraint failure): when an add of a peer passes the checks of
\* apply_remote_operation, no listed element holds a dot of the incoming
\* dot's actor that removed_dots does not name, and the storage step does
\* not fail on the one-dot-per-(element, actor) constraint; this for every
\* operation a peer's sadd can produce, repeated elements included.
C39_StorageStepNeverConflicts ==
  \A m \in Linked : \A op \in PeerAdds(m) :
    PassesChecks(vv[m], op)
      => /\ \A i \in 1..Len(op.elements) :
              \A q \in DotsOn(db[m], op.elements[i]) :
                q.actor_id = op.dot.actor_id => RowDot(q) \in op.removed_dots
         /\ apply_remote_operation(vv[m], db[m], op).result = "applied"

\* C39 for member lists without a repeated element: the storage step of an
\* add that passes the checks does not fail.
C39_DistinctElementsNeverConflict ==
  \A m \in Linked : \A op \in PeerAdds(m) :
    (PassesChecks(vv[m], op) /\ ~Repeats(op.elements))
      => apply_remote_operation(vv[m], db[m], op).result = "applied"

\* The version vector Server::sadd returned to the client with Ok for the
\* write that produced op: the context with the writer's increment.
ReturnedVV(op) == increment(op.context, op.dot.actor_id)

\* Node m has applied, or made itself, a remove of element e whose context
\* covers the dot of the add op.
RemoveObserved(m, op, e) ==
  \E r \in Produced :
    /\ r.op_type = "Remove" /\ e \in Listed(r.elements)
    /\ r.dot.actor_id = m \/ r.dot \in Applied(m)
    /\ VVget(r.context, op.dot.actor_id) >= op.dot.counter

\* C38, the membership part: a read at any node that is served with the
\* version vector a successful sadd returned as client_vv reports every
\* added element, unless the node applied a remove that observed the add.
C38_ServedReadReportsMember ==
  \A op \in Produced : \A m \in Actors :
    LET read == smembers(vv[m], db[m], {ReturnedVV(op)})
    IN (op.op_type = "Add" /\ read.kind = "BytesArray")
         => \A e \in Listed(op.elements) : e \in read.value \/ RemoveObserved(m, op, e)

\* C38 (read-your-writes through the returned vector): a read with the
\* version vector a successful sadd returned as client_vv is never NotReady
\* on the node that made the write; on any node, if it is served, the node
\* has applied the add, and every added element is reported unless the node
\* applied a remove that observed the add.
C38_ReadYourWrites ==
  /\ C38_ServedReadReportsMember
  /\ \A op \in Produced : \A m \in Actors :
       LET read == smembers(vv[m], db[m], {ReturnedVV(op)})
       IN op.op_type = "Add"
            => /\ m = op.dot.actor_id => read.kind = "BytesArray"
               /\ (m # op.dot.actor_id /\ read.kind = "BytesArray")
                    => op.dot \in Applied(m)

\* C38 for any member list: node n takes a sadd, the operation is delivered
\* to its peer m, and a read at m with the returned vector that is served
\* reports every member of the list (no remove lies between).
C38_ServedReadAfterDelivery ==
  \A n \in Linked, members \in StoreLists : \A m \in Linked \ {n} :
    LET w == sadd(vv[n], db[n], n, members)
        h == handle_connection(Node(m), w.op)
        read == smembers(h.vv, h.db, {w.result.vv})
    IN read.kind = "BytesArray" => \A e \in Listed(members) : e \in read.value

\* C40 (wire codec round trip): for every operation, add or remove, with
\* any elements, dot, removed dots and context, proto_to_operation of
\* operation_to_proto of the operation is Some of that operation.
C40_CodecRoundTrip ==
  \A r \in {"v", "o"} : \A op \in CodecOps(vv[r]) :
    proto_to_operation_msg(operation_to_proto(op)) = {op}

\* The context holds all three actors, one of them with counter 0, and an
\* operation with two removed dots and a dot of the actor with epoch 2 goes
\* through the codec unchanged.
C40_Witness ==
  /\ DOMAIN vv.v = VVActors
  /\ \E a \in VVActors : vv.v[a] = 0
  /\ \E op \in CodecOps(vv.v) :
       /\ Len(op.op_type.removed_dots) = 2
       /\ ActorId_epoch(op.op_type.dot.actor_id) = 2
       /\ proto_to_operation_msg(operation_to_proto(op)) = {op}

=============================================================================
